---- MODULE Spec2Model ----
(***************************************************************************)
(* MediaViewer: the session synchronisation hub.                           *)
(*                                                                         *)
(* The model follows the latest server entry point (the WebSocket hub with *)
(* the in-memory runtimeState store), the PUT/GET /sync endpoints of the   *)
(* API router and the publishExternalSyncUpdate path used by the VR        *)
(* adapters and the DeoVR heartbeat.                                       *)
(***************************************************************************)
EXTENDS Integers, Sequences, FiniteSets, TLC

(***************************************************************************)
(* Bounds of the model.                                                    *)
(***************************************************************************)
NumSockets == 2
MaxNow == 2
MaxPending == 1
MaxOps == 3

(***************************************************************************)
(* JavaScript values.  A string-typed field holds a string or one of the   *)
(* sentinels below; a number-typed field holds a JsNum record whose finite *)
(* values are counted in halves, so that Math.round has something to do.   *)
(***************************************************************************)
Undef == "<undefined>"
Null == "<null>"
NonString == "<non-string>"
Absent == "<absent>"

Num(n) == [t |-> "num", h |-> 2 * n]
Half(k) == [t |-> "num", h |-> k]
NaN == [t |-> "nan", h |-> 0]
PosInf == [t |-> "inf", h |-> 0]
NegInf == [t |-> "ninf", h |-> 0]
NotNumber == [t |-> "other", h |-> 0]

\* typeof v === 'number'
IsNumberType(v) == v.t \in {"num", "nan", "inf", "ninf"}
\* Number.isFinite(v)
IsFiniteNumber(v) == v.t = "num"

\* Number(v) for the values of the model: a non-number (undefined, text) is NaN
ToNumber(v) == IF IsNumberType(v) THEN v ELSE NaN

\* a || d for numbers: 0 and NaN are falsy
OrElse(v, d) == IF v.t = "nan" \/ (v.t = "num" /\ v.h = 0) THEN d ELSE v

\* Math.round: to the nearest integer, halves towards +Infinity
MathRound(v) == IF v.t = "num" THEN [t |-> "num", h |-> 2 * ((v.h + 1) \div 2)] ELSE v

\* Math.max(lo, v) for a finite integer lo
MathMax(lo, v) ==
  CASE v.t = "num" -> IF v.h < 2 * lo THEN Num(lo) ELSE v
    [] v.t = "inf" -> v
    [] v.t = "ninf" -> Num(lo)
    [] OTHER -> NaN

\* String.prototype.trim on the strings of the model
Trim(s) ==
  CASE s = " " -> ""
    [] s = " s1 " -> "s1"
    [] s = " m1 " -> "m1"
    [] s = " A " -> "A"
    [] s = " a.mp4" -> "a.mp4"
    [] OTHER -> s

\* variant: the default is substituted but the id is not trimmed
TrimOrDefaultUntrimmed(x, d) ==
  LET raw == IF x \in {Undef, Null} THEN d ELSE x
  IN IF raw = "" THEN d ELSE raw

\* String(x ?? d).trim() || d
TrimOrDefault(x, d) ==
  LET raw == IF x \in {Undef, Null} THEN d ELSE x
      t == Trim(raw)
  IN IF t = "" THEN d ELSE t

\* String(x ?? '').trim()
TrimOrEmpty(x) == IF x \in {Undef, Null} THEN "" ELSE Trim(x)

(***************************************************************************)
(* Map helpers (JavaScript Map: has, get, delete, set, keys).              *)
(***************************************************************************)
\* a Map is the set of its entries [k, v], at most one per key
MapHas(m, k) == \E e \in m : e.k = k
MapGet(m, k) == (CHOOSE e \in m : e.k = k).v
MapDelete(m, k) == {e \in m : e.k # k}
MapSet(m, k, v) == MapDelete(m, k) \cup {[k |-> k, v |-> v]}
MapKeys(m) == {e.k : e \in m}
EmptyMap == {}

(***************************************************************************)
(* Date.parse / toISOString on the playAt strings of the model.  An        *)
(* instant is a small integer; -1 stands for NaN.                          *)
(***************************************************************************)
DateParse(s) ==
  CASE s = "2030-01-01T00:00:01Z" -> 1
    [] s = "2030-01-01T00:00:01.000Z" -> 1
    [] s = "2030-01-01T00:00:02.000Z" -> 2
    [] OTHER -> -1

ToISOString(t) ==
  CASE t = 1 -> "2030-01-01T00:00:01.000Z"
    [] t = 2 -> "2030-01-01T00:00:02.000Z"
    [] OTHER -> "Invalid Date"

(***************************************************************************)
(* The state of the server.                                                *)
(***************************************************************************)
VARIABLES
  now,                       \* Date.now(), in milliseconds
  syncStateBySession,        \* runtimeState: Map sessionId -> SyncPlaybackState
  sessionPlayAt,             \* Map sessionId -> ISO string
  sessionPlayAtLocalMs,      \* Map sessionId -> number
  sessionCapturedAtLocalMs,  \* Map sessionId -> number
  clientMetadata,            \* Map clientId -> {userAgent, ipAddress}
  clientUiStatus,            \* Map clientId -> {uiView, mediaId}
  clientsById,               \* Map clientId -> Set<WsClient>
  sockets,                   \* per socket: readyState, __mvClientId, __mvSessionId, __mvUserAgent
  mediaFilenameById,         \* keys of the filename cache of lookupMediaFilename
  pendingPublish,            \* publishExternalSyncUpdate calls suspended in lookupMediaFilename
  sent,                      \* the sync:state messages emitted by the last step
  lastOp,                    \* the handler that ran in the last step, with its input
  ops,                       \* number of handler steps taken
  hist,                      \* history: what the claims need to remember of the past
  scanProgress,              \* api.ts: {isScanning, ...}
  scanRuns,                  \* the executions of upsertMediaFromDisk that have not returned
  mediaItems,                \* the rows of media_items: id, rel_path, media_type and is_vr
  disk,                      \* per path of the media root: what fs.stat answers
  probeVr,                   \* the files whose ffprobe metadata flags a VR video
  pool,                      \* the worker pools of the cleanups: rows, idx, checked, missing
  deovrStates,               \* the DeovrPlaybackState objects ever created (by identity)
  deovrPlaybackByKey,        \* Map key -> DeovrPlaybackState (its identity)
  lastVrStreamMediaByClient, \* Map key -> mediaId
  streamResponses,           \* the responses of DeoVR stream requests, with the state they hold
  timers,                    \* the armed timers: setInterval and setTimeout
  vrOut,                     \* the onVrStream publishes of the last step
  vrHist,                    \* history of the heartbeat: what its claims need of the past
  writeFails,                \* the sockets whose send fails, and whether it throws
  thumbCache                 \* per thumbnail key: the files of the cache directory

thumbVars == <<thumbCache>>

scanVars == <<scanProgress, scanRuns, mediaItems, disk, probeVr, pool>>

deovrVars == <<deovrStates, deovrPlaybackByKey, lastVrStreamMediaByClient, streamResponses,
               timers, vrOut, vrHist>>

vars == <<now, syncStateBySession, sessionPlayAt, sessionPlayAtLocalMs, sessionCapturedAtLocalMs,
          clientMetadata, clientUiStatus, clientsById, sockets, mediaFilenameById,
          pendingPublish, sent, lastOp, ops, hist, scanVars, deovrVars, writeFails, thumbVars>>

Sockets == 1 .. NumSockets
SessionIds == {"default", "s1"}

NoNum == [t |-> "absent", h |-> 0]

(***************************************************************************)
(* runtimeState.ts: the in-memory session store.                           *)
(***************************************************************************)
DefaultState(id) ==
  [sessionId |-> id, mediaId |-> Null, timeMs |-> Num(0), paused |-> TRUE, fps |-> Num(30),
   frame |-> Num(0), fromClientId |-> "", updatedAt |-> 0]

getSyncPlaybackState(sessionId) ==
  LET id == TrimOrDefault(sessionId, "default")
  IN IF MapHas(syncStateBySession, id) THEN MapGet(syncStateBySession, id) ELSE DefaultState(id)

\* the record upsertSyncPlaybackState builds, stores and returns
upsertNext(input) ==
  [sessionId |-> TrimOrDefault(input.sessionId, "default"),
   mediaId |-> IF input.mediaId = Null THEN Null ELSE TrimOrEmpty(input.mediaId),
   timeMs |-> MathMax(0, MathRound(OrElse(ToNumber(input.timeMs), Num(0)))),
   paused |-> input.paused,
   fps |-> MathMax(1, MathRound(OrElse(ToNumber(input.fps), Num(30)))),
   frame |-> MathMax(0, MathRound(OrElse(ToNumber(input.frame), Num(0)))),
   fromClientId |-> IF input.fromClientId \in {Undef, Null} THEN "" ELSE input.fromClientId,
   updatedAt |-> now]

upsertSyncPlaybackState(input) ==
  \E next \in {upsertNext(input)} :
    syncStateBySession' = MapSet(syncStateBySession, next.sessionId, next)

(***************************************************************************)
(* The hub: presence list and the two ways of sending sync:state.          *)
(***************************************************************************)
buildClientsList ==
  { [clientId |-> id,
     userAgent |-> MapGet(clientMetadata, id).userAgent,
     ipAddress |-> MapGet(clientMetadata, id).ipAddress,
     uiView |-> IF MapHas(clientUiStatus, id) THEN MapGet(clientUiStatus, id).uiView ELSE Undef,
     uiMediaId |-> IF MapHas(clientUiStatus, id) THEN MapGet(clientUiStatus, id).mediaId ELSE Undef]
    : id \in MapKeys(clientMetadata) }

\* the optional number of a message: present when it is a finite number
OptNum(m, k) == IF MapHas(m, k) /\ IsFiniteNumber(MapGet(m, k)) THEN MapGet(m, k) ELSE NoNum

NoSeek ==
  [openInUi |-> Absent, seekToken |-> Absent, seekPhase |-> Absent, seekWantPlay |-> Absent,
   seekTargetClientId |-> Absent]

\* variant: only the open sockets that have said hello
OpenSocketsAttached == {w \in Sockets : sockets[w].readyState = 1 /\ sockets[w].clientId # Undef}

\* wss.clients whose readyState is OPEN
OpenSockets == {w \in Sockets : sockets[w].readyState = 1}

\* variant: the scheduled playAt is attached without looking at paused
broadcastSyncStateAnyPlayAt(sessionId) ==
  LET baseState == getSyncPlaybackState(sessionId)
      playAt == IF MapHas(sessionPlayAt, sessionId) THEN MapGet(sessionPlayAt, sessionId) ELSE Absent
  IN [kind |-> "broadcast",
      sessionId |-> sessionId,
      state |-> [base |-> baseState,
                 playAt |-> playAt,
                 playAtLocalMs |-> OptNum(sessionPlayAtLocalMs, sessionId),
                 capturedAtLocalMs |-> OptNum(sessionCapturedAtLocalMs, sessionId),
                 seek |-> NoSeek],
      clients |-> buildClientsList,
      to |-> OpenSockets]

\* the message broadcastSyncState(sessionId) sends, and the sockets it is sent to
broadcastSyncState(sessionId) ==
  LET baseState == getSyncPlaybackState(sessionId)
      playAt == IF MapHas(sessionPlayAt, sessionId) THEN MapGet(sessionPlayAt, sessionId) ELSE Absent
  IN [kind |-> "broadcast",
      sessionId |-> sessionId,
      state |-> [base |-> baseState,
                 playAt |-> IF ~baseState.paused /\ playAt # Absent THEN playAt ELSE Absent,
                 playAtLocalMs |-> OptNum(sessionPlayAtLocalMs, sessionId),
                 capturedAtLocalMs |-> OptNum(sessionCapturedAtLocalMs, sessionId),
                 seek |-> NoSeek],
      clients |-> buildClientsList,
      to |-> OpenSockets]

\* variant: the message goes to every open socket instead of the sockets of toClientId
sendSyncStateToEveryClient(sessionId, toClientId, state) ==
  IF ~MapHas(clientsById, toClientId) \/ MapGet(clientsById, toClientId) = {}
  THEN {}
  ELSE LET playAt == IF MapHas(sessionPlayAt, sessionId) THEN MapGet(sessionPlayAt, sessionId) ELSE Absent
       IN {[kind |-> "unicast",
            sessionId |-> sessionId,
            state |-> [base |-> state.base,
                       playAt |-> IF ~state.base.paused /\ playAt # Absent THEN playAt ELSE state.playAt,
                       playAtLocalMs |-> OptNum(sessionPlayAtLocalMs, sessionId),
                       capturedAtLocalMs |-> OptNum(sessionCapturedAtLocalMs, sessionId),
                       seek |-> state.seek],
            clients |-> buildClientsList,
            to |-> OpenSockets]}

\* the messages sendSyncStateToClient(sessionId, toClientId, state) sends: none without targets
sendSyncStateToClient(sessionId, toClientId, state) ==
  IF ~MapHas(clientsById, toClientId) \/ MapGet(clientsById, toClientId) = {}
  THEN {}
  ELSE LET playAt == IF MapHas(sessionPlayAt, sessionId) THEN MapGet(sessionPlayAt, sessionId) ELSE Absent
       IN {[kind |-> "unicast",
            sessionId |-> sessionId,
            state |-> [base |-> state.base,
                       playAt |-> IF ~state.base.paused /\ playAt # Absent THEN playAt ELSE state.playAt,
                       playAtLocalMs |-> OptNum(sessionPlayAtLocalMs, sessionId),
                       capturedAtLocalMs |-> OptNum(sessionCapturedAtLocalMs, sessionId),
                       seek |-> state.seek],
            clients |-> buildClientsList,
            to |-> {w \in MapGet(clientsById, toClientId) : sockets[w].readyState = 1}]}

(***************************************************************************)
(* Bookkeeping of a step: the handler that ran and the history.            *)
(***************************************************************************)
NoSeekIn ==
  [openInUi |-> Undef, seekToken |-> Undef, seekPhase |-> Undef, seekWantPlay |-> Undef,
   seekTargetClientId |-> Undef]

NoArg ==
  [sessionId |-> "", mediaId |-> "", timeMs |-> [t |-> "other", h |-> 0], paused |-> TRUE,
   fps |-> [t |-> "other", h |-> 0], frame |-> [t |-> "other", h |-> 0], fromClientId |-> ""]

Op(name) ==
  [op |-> name, ws |-> 0, sessionId |-> "", clientId |-> "", accepted |-> FALSE,
   targeted |-> FALSE, toClientId |-> "", seekIn |-> NoSeekIn, wasLast |-> FALSE,
   arg |-> NoArg, result |-> NoArg]

\* history after a broadcast of session s
HistBroadcast(h, s, msg) ==
  [h EXCEPT !.unbroadcast = @ \ {s},
            !.lastBcastAt = [@ EXCEPT ![s] = msg.state.base.updatedAt]]

(***************************************************************************)
(* Connections.                                                            *)
(***************************************************************************)
\* the User-Agent header each connection sends ("" when it sends none)
UserAgentHeader == [w \in Sockets |-> IF w = 1 THEN "Firefox" ELSE ""]

\* wss.on('connection'): capture the user agent, greet
Connect(w) ==
  /\ UNCHANGED <<scanVars, deovrVars, thumbVars>>
  /\ writeFails' = {f \in writeFails : f.ws # w}
  /\ sockets[w].readyState = 0
  /\ sockets' = [sockets EXCEPT ![w] =
       [readyState |-> 1, clientId |-> Undef, sessionId |-> Undef,
        userAgent |-> IF UserAgentHeader[w] = "" THEN "Unknown" ELSE UserAgentHeader[w]]]
  /\ sent' = {}
  /\ lastOp' = [Op("connection") EXCEPT !.ws = w]
  /\ UNCHANGED <<now, syncStateBySession, sessionPlayAt, sessionPlayAtLocalMs,
                 sessionCapturedAtLocalMs, clientMetadata, clientUiStatus, clientsById,
                 mediaFilenameById, pendingPublish, ops, hist>>

\* the peer starts the closing handshake: readyState leaves OPEN before 'close' is emitted
SocketClosing(w) ==
  /\ UNCHANGED <<scanVars, deovrVars, writeFails, thumbVars>>
  /\ sockets[w].readyState = 1
  /\ sockets' = [sockets EXCEPT ![w].readyState = 2]
  /\ sent' = {}
  /\ lastOp' = [Op("closing") EXCEPT !.ws = w]
  /\ UNCHANGED <<now, syncStateBySession, sessionPlayAt, sessionPlayAtLocalMs,
                 sessionCapturedAtLocalMs, clientMetadata, clientUiStatus, clientsById,
                 mediaFilenameById, pendingPublish, ops, hist>>

\* variant: the socket stays in the set it was in
detachKept(w, clientId) == clientsById

\* clientsById after ws leaves the set of clientId
detach(w, clientId) ==
  IF MapHas(clientsById, clientId)
  THEN IF MapGet(clientsById, clientId) \ {w} = {}
       THEN MapDelete(clientsById, clientId)
       ELSE MapSet(clientsById, clientId, MapGet(clientsById, clientId) \ {w})
  ELSE clientsById

\* variant: the close handler leaves clientMetadata alone
metadataAfterCloseKept(clientId) == clientMetadata

\* clientMetadata after the close handler of a socket registered as clientId
metadataAfterClose(clientId) == MapDelete(clientMetadata, clientId)

\* variant: a re-keying hello leaves the metadata of the prior clientId in place
metadataAfterRekeyKept(prior) == clientMetadata

\* clientMetadata after a hello has re-keyed a socket that was registered as prior
metadataAfterRekey(prior) == MapDelete(clientMetadata, prior)

\* the sockets registered as clientId whose close has not been handled yet
RegisteredSockets(clientId) ==
  {w \in Sockets : sockets[w].clientId = clientId /\ sockets[w].readyState \in {1, 2}}

\* variant: the broadcast is built before the handler's assignments take effect
\* The sockets a loop "for (ws of targets) if (ws.readyState === 1) ws.send(msg)" reaches
\* when the send of some targets fails.  A send that fails without throwing loses the message
\* of its socket; a send that throws ends the loop, and the sockets after it in the
\* iteration order of the Set (the order of insertion, which is not recorded) get nothing.
SendOutcomes(targets) ==
  IF \E f \in writeFails : f.throws /\ f.ws \in targets
  THEN SUBSET (targets \ {f.ws : f \in writeFails})
  ELSE {targets \ {f.ws : f \in writeFails}}

\* sendSyncStateToClient as the handler calls it: msgs is what it builds
Unicast(msgs) ==
  IF msgs = {}
  THEN sent' = {}
  ELSE \E m \in msgs : \E to \in SendOutcomes(m.to) : sent' = {[m EXCEPT !.to = to]}

BroadcastBeforeCommit(sessionId, h) ==
  \E m \in {broadcastSyncState(sessionId)} :
    \E to \in SendOutcomes(m.to) :
      /\ sent' = {[m EXCEPT !.to = to]}
      /\ hist' = HistBroadcast(h, sessionId, m)

\* the step sends the broadcast of sessionId, built after the handler's assignments
Broadcast(sessionId, h) ==
  \E m \in {broadcastSyncState(sessionId)'} :
    \E to \in SendOutcomes(m.to) :
      /\ sent' = {[m EXCEPT !.to = to]}
      /\ hist' = HistBroadcast(h, sessionId, m)

\* ws.on('close')
OnClose(w) ==
  \E clientId \in {sockets[w].clientId}, sessionId \in {sockets[w].sessionId} :
    /\ sockets[w].readyState \in {1, 2}
    /\ UNCHANGED <<scanVars, deovrVars, writeFails, thumbVars>>
    /\ ops < MaxOps
    /\ ops' = ops + 1
    /\ sockets' = [sockets EXCEPT ![w].readyState = 3]
    /\ UNCHANGED <<now, syncStateBySession, sessionPlayAt, sessionPlayAtLocalMs,
                   sessionCapturedAtLocalMs, mediaFilenameById, pendingPublish>>
    /\ IF clientId # Undef
       THEN /\ clientMetadata' = metadataAfterClose(clientId)
            /\ clientUiStatus' = MapDelete(clientUiStatus, clientId)
            /\ clientsById' = detach(w, clientId)
            /\ lastOp' = [Op("close") EXCEPT !.ws = w, !.clientId = clientId,
                            !.accepted = TRUE, !.wasLast = RegisteredSockets(clientId) = {w}]
            /\ IF sessionId # Undef
               THEN Broadcast(sessionId,
                      [hist EXCEPT !.departed = IF RegisteredSockets(clientId) = {w}
                                                THEN @ \cup {clientId} ELSE @])
               ELSE /\ sent' = {}
                    /\ hist' = hist
       ELSE /\ UNCHANGED <<clientMetadata, clientUiStatus, clientsById, hist>>
            /\ lastOp' = [Op("close") EXCEPT !.ws = w]
            /\ sent' = {}

(***************************************************************************)
(* Inbound WebSocket messages.                                             *)
(***************************************************************************)
\* sync:hello {clientId, sessionId?}
WsHello(w, msg) ==
  \E clientId \in {TrimOrEmpty(msg.clientId)},
     sessionId \in {TrimOrDefault(msg.sessionId, "default")},
     prior \in {sockets[w].clientId} :
    LET rekey == clientId # "" /\ prior # Undef /\ prior # clientId
        detached == IF rekey THEN detach(w, prior) ELSE clientsById
        meta1 == IF rekey THEN metadataAfterRekey(prior) ELSE clientMetadata
    IN
    /\ sockets[w].readyState = 1
    /\ UNCHANGED <<scanVars, deovrVars, writeFails, thumbVars>>
    /\ ops < MaxOps
    /\ ops' = ops + 1
    /\ IF clientId # ""
       THEN /\ clientMetadata' = MapSet(meta1, clientId,
                 [userAgent |-> sockets[w].userAgent, ipAddress |-> "10.0.0.1"])
            /\ clientsById' = MapSet(detached, clientId,
                 (IF MapHas(detached, clientId) THEN MapGet(detached, clientId) ELSE {}) \cup {w})
            /\ sockets' = [sockets EXCEPT ![w].clientId = clientId, ![w].sessionId = sessionId]
       ELSE /\ UNCHANGED <<clientMetadata, clientsById>>
            /\ sockets' = [sockets EXCEPT ![w].sessionId = sessionId]
    /\ UNCHANGED <<now, syncStateBySession, sessionPlayAt, sessionPlayAtLocalMs,
                   sessionCapturedAtLocalMs, clientUiStatus, mediaFilenameById, pendingPublish>>
    /\ lastOp' = [Op("sync:hello") EXCEPT !.ws = w, !.sessionId = sessionId,
                    !.clientId = clientId, !.accepted = clientId # "",
                    !.arg = [prior |-> prior]]
    /\ Broadcast(sessionId, [hist EXCEPT !.departed = @ \ {clientId}])

\* client:status {clientId?, sessionId?, uiView?, mediaId?}
WsClientStatus(w, msg) ==
  \E clientId \in {TrimOrEmpty(IF msg.clientId \in {Undef, Null} THEN sockets[w].clientId
                               ELSE msg.clientId)},
     sessionId \in {TrimOrDefault(IF msg.sessionId \in {Undef, Null} THEN sockets[w].sessionId
                                  ELSE msg.sessionId, "default")} :
    LET uiView == IF msg.uiView \in {Undef, Null, NonString} THEN "" ELSE Trim(msg.uiView)
        uiMediaId == IF msg.mediaId = Null THEN Null
                     ELSE IF msg.mediaId \in {Undef, NonString} THEN Undef ELSE Trim(msg.mediaId)
        hasPrev == MapHas(clientUiStatus, clientId)
        next == [uiView |-> IF uiView # "" THEN uiView
                            ELSE IF hasPrev THEN MapGet(clientUiStatus, clientId).uiView ELSE Undef,
                 mediaId |-> IF uiMediaId # Undef THEN uiMediaId
                             ELSE IF hasPrev THEN MapGet(clientUiStatus, clientId).mediaId
                                  ELSE Undef]
    IN
    /\ sockets[w].readyState = 1
    /\ UNCHANGED <<scanVars, deovrVars, writeFails, thumbVars>>
    /\ ops < MaxOps
    /\ ops' = ops + 1
    /\ UNCHANGED <<now, syncStateBySession, sessionPlayAt, sessionPlayAtLocalMs,
                   sessionCapturedAtLocalMs, clientMetadata, clientsById, sockets,
                   mediaFilenameById, pendingPublish>>
    /\ IF clientId = ""
       THEN /\ UNCHANGED <<clientUiStatus, hist>>
            /\ sent' = {}
            /\ lastOp' = [Op("client:status") EXCEPT !.ws = w]
       ELSE /\ clientUiStatus' = MapSet(clientUiStatus, clientId, next)
            /\ lastOp' = [Op("client:status") EXCEPT !.ws = w, !.sessionId = sessionId,
                            !.clientId = clientId, !.accepted = TRUE]
            /\ Broadcast(sessionId, hist)

\* typeof v === 'string' for a string-typed field of a message
IsString(v) == v \notin {Undef, Null, NonString}

\* variant: the captured time is kept for the session "default", whatever the session
capturedAfterShared(msg, sessionId) ==
  IF IsFiniteNumber(msg.capturedAtLocalMs) /\ msg.capturedAtLocalMs.h > 0
  THEN MapSet(sessionCapturedAtLocalMs, "default", MathRound(msg.capturedAtLocalMs))
  ELSE sessionCapturedAtLocalMs

\* the ephemerals after the capturedAtLocalMs / playAt / playAtLocalMs part of sync:update
capturedAfter(msg, sessionId) ==
  IF IsFiniteNumber(msg.capturedAtLocalMs) /\ msg.capturedAtLocalMs.h > 0
  THEN MapSet(sessionCapturedAtLocalMs, sessionId, MathRound(msg.capturedAtLocalMs))
  ELSE sessionCapturedAtLocalMs

playAtOf(msg) ==
  IF msg.playAt = Null THEN Null ELSE IF IsString(msg.playAt) THEN Trim(msg.playAt) ELSE ""

playAtAfter(msg, sessionId) ==
  LET playAt == playAtOf(msg)
  IN IF playAt = Null THEN MapDelete(sessionPlayAt, sessionId)
     ELSE IF playAt # "" /\ DateParse(playAt) # -1
          THEN MapSet(sessionPlayAt, sessionId, ToISOString(DateParse(playAt)))
          ELSE sessionPlayAt

playAtLocalMsAfter(msg, sessionId) ==
  LET playAt == playAtOf(msg)
  IN IF playAt = Null THEN MapDelete(sessionPlayAtLocalMs, sessionId)
     ELSE IF playAt # ""
          THEN IF IsFiniteNumber(msg.playAtLocalMs) /\ msg.playAtLocalMs.h > 0
               THEN MapSet(sessionPlayAtLocalMs, sessionId, MathRound(msg.playAtLocalMs))
               ELSE MapDelete(sessionPlayAtLocalMs, sessionId)
          ELSE sessionPlayAtLocalMs

\* if (paused) delete; if (!paused && playAtRaw === undefined) delete
clearScheduled(m, msg, sessionId) ==
  IF msg.paused \/ msg.playAt = Undef THEN MapDelete(m, sessionId) ELSE m

\* the optional, non-persisted fields kept for targeted routing
passthrough(msg) ==
  [openInUi |-> IF msg.seek.openInUi = "true" THEN "true" ELSE Absent,
   seekToken |-> IF IsString(msg.seek.seekToken) /\ Trim(msg.seek.seekToken) # ""
                 THEN Trim(msg.seek.seekToken) ELSE Absent,
   seekPhase |-> IF IsString(msg.seek.seekPhase) /\ Trim(msg.seek.seekPhase) # ""
                 THEN Trim(msg.seek.seekPhase) ELSE Absent,
   seekWantPlay |-> IF msg.seek.seekWantPlay = Undef THEN Absent
                    ELSE IF msg.seek.seekWantPlay = "true" THEN "true" ELSE "false",
   seekTargetClientId |-> IF IsString(msg.seek.seekTargetClientId)
                             /\ Trim(msg.seek.seekTargetClientId) # ""
                          THEN Trim(msg.seek.seekTargetClientId) ELSE Absent]

\* history of the scheduled playAt: does the update supply a new, valid playAt
suppliesPlayAt(msg) == IsString(msg.playAt) /\ DateParse(Trim(msg.playAt)) # -1

\* the state object the targeted branch hands to sendSyncStateToClient (built after the
\* ephemerals have been updated)
targetedState(msg, sessionId, clientId, mediaId) ==
  LET timeMs == IF IsNumberType(msg.timeMs) THEN msg.timeMs ELSE Num(0)
      fps == IF IsFiniteNumber(msg.fps) THEN msg.fps ELSE Num(30)
      frame == IF IsFiniteNumber(msg.frame) THEN msg.frame ELSE Num(0)
  IN [base |-> [sessionId |-> sessionId, mediaId |-> mediaId, timeMs |-> timeMs,
                paused |-> msg.paused, fps |-> fps, frame |-> frame,
                fromClientId |-> clientId, updatedAt |-> now],
      playAt |-> IF ~msg.paused /\ MapHas(sessionPlayAt, sessionId)
                 THEN MapGet(sessionPlayAt, sessionId) ELSE Absent,
      seek |-> passthrough(msg)]

\* the input the handlers hand to upsertSyncPlaybackState: timeMs must be of type number,
\* fps and frame must be finite numbers
upsertInput(sessionId, mediaId, clientId, m) ==
  [sessionId |-> sessionId, mediaId |-> mediaId,
   timeMs |-> IF IsNumberType(m.timeMs) THEN m.timeMs ELSE Num(0),
   paused |-> m.paused,
   fps |-> IF IsFiniteNumber(m.fps) THEN m.fps ELSE Num(30),
   frame |-> IF IsFiniteNumber(m.frame) THEN m.frame ELSE Num(0),
   fromClientId |-> clientId]

\* variant: the targeted branch commits before it routes
SyncUpdateTargetedCommitting(msg, sessionId, clientId, mediaId, toClientId) ==
  /\ upsertSyncPlaybackState(upsertInput(sessionId, mediaId, clientId, msg))
  /\ \E state \in {targetedState(msg, sessionId, clientId, mediaId)'} :
       \E msgs \in {sendSyncStateToClient(sessionId, toClientId, state)'} : Unicast(msgs)
  /\ hist' = [hist EXCEPT !.cleared =
                IF ~msg.paused /\ suppliesPlayAt(msg) THEN @ \ {sessionId} ELSE @]

\* targeted control: route directly to a single client without updating the session state
SyncUpdateTargeted(msg, sessionId, clientId, mediaId, toClientId) ==
  /\ UNCHANGED syncStateBySession
  /\ \E state \in {targetedState(msg, sessionId, clientId, mediaId)'} :
       \E msgs \in {sendSyncStateToClient(sessionId, toClientId, state)'} : Unicast(msgs)
  /\ hist' = [hist EXCEPT !.cleared =
                IF ~msg.paused /\ suppliesPlayAt(msg) THEN @ \ {sessionId} ELSE @]

\* otherwise: commit to the store, then broadcast
SyncUpdateCommit(msg, sessionId, clientId, mediaId) ==
  /\ upsertSyncPlaybackState(upsertInput(sessionId, mediaId, clientId, msg))
  /\ Broadcast(sessionId,
       [hist EXCEPT !.cleared =
          IF msg.paused \/ msg.playAt \in {Undef, Null}
          THEN @ \cup {sessionId}
          ELSE IF suppliesPlayAt(msg) THEN @ \ {sessionId} ELSE @])

\* sync:update {clientId, sessionId?, mediaId|null, timeMs, paused, fps, frame, playAt?, ...}
WsSyncUpdate(w, msg) ==
  \E clientId \in {TrimOrEmpty(IF msg.clientId \in {Undef, Null} THEN sockets[w].clientId
                               ELSE msg.clientId)},
     sessionId \in {TrimOrDefault(IF msg.sessionId \in {Undef, Null} THEN sockets[w].sessionId
                                  ELSE msg.sessionId, "default")},
     mediaId \in {IF msg.mediaId = Null THEN Null ELSE TrimOrEmpty(msg.mediaId)},
     toClientId \in {IF IsString(msg.toClientId) THEN Trim(msg.toClientId) ELSE ""} :
    /\ sockets[w].readyState = 1
    /\ UNCHANGED <<scanVars, deovrVars, writeFails, thumbVars>>
    /\ ops < MaxOps
    /\ ops' = ops + 1
    /\ UNCHANGED <<now, clientMetadata, clientUiStatus, clientsById, sockets,
                   mediaFilenameById, pendingPublish>>
    /\ IF clientId = "" \/ mediaId = ""
       THEN /\ UNCHANGED <<syncStateBySession, sessionPlayAt, sessionPlayAtLocalMs,
                           sessionCapturedAtLocalMs, hist>>
            /\ sent' = {}
            /\ lastOp' = [Op("sync:update") EXCEPT !.ws = w]
       ELSE /\ sessionCapturedAtLocalMs' = capturedAfter(msg, sessionId)
            /\ sessionPlayAt' = clearScheduled(playAtAfter(msg, sessionId), msg, sessionId)
            /\ sessionPlayAtLocalMs' =
                 clearScheduled(playAtLocalMsAfter(msg, sessionId), msg, sessionId)
            /\ lastOp' = [Op("sync:update") EXCEPT !.ws = w, !.sessionId = sessionId,
                            !.clientId = clientId, !.accepted = TRUE,
                            !.targeted = toClientId # "", !.toClientId = toClientId,
                            !.seekIn = msg.seek,
                            !.arg = [sessionId |-> msg.sessionId,
                                     capturedAtLocalMs |-> msg.capturedAtLocalMs,
                                     playAt |-> msg.playAt,
                                     playAtLocalMs |-> msg.playAtLocalMs]]
            /\ IF toClientId # ""
               THEN SyncUpdateTargeted(msg, sessionId, clientId, mediaId, toClientId)
               ELSE SyncUpdateCommit(msg, sessionId, clientId, mediaId)

(***************************************************************************)
(* HTTP: PUT /sync, and the external publishes of the VR adapters.         *)
(***************************************************************************)
\* PUT /sync {sessionId?, clientId, mediaId|null, timeMs, paused, fps, frame}
HttpPutSync(body) ==
  \E sessionId \in {TrimOrDefault(body.sessionId, "default")},
     clientId \in {TrimOrEmpty(body.clientId)},
     mediaId \in {IF body.mediaId = Null THEN Null ELSE TrimOrEmpty(body.mediaId)} :
    /\ UNCHANGED <<scanVars, deovrVars, writeFails, thumbVars>>
    /\ ops < MaxOps
    /\ ops' = ops + 1
    /\ sent' = {}
    /\ UNCHANGED <<now, sessionPlayAt, sessionPlayAtLocalMs, sessionCapturedAtLocalMs,
                   clientMetadata, clientUiStatus, clientsById, sockets, mediaFilenameById,
                   pendingPublish>>
    /\ IF clientId = "" \/ mediaId = ""
       THEN /\ UNCHANGED <<syncStateBySession, hist>>
            /\ lastOp' = Op("PUT /sync")
       ELSE /\ upsertSyncPlaybackState(upsertInput(sessionId, mediaId, clientId, body))
            /\ lastOp' = [Op("PUT /sync") EXCEPT !.sessionId = sessionId,
                            !.clientId = clientId, !.accepted = TRUE,
                            !.arg = [sessionId |-> body.sessionId]]
            /\ hist' = [hist EXCEPT !.cleared = @ \cup {sessionId},
                                    !.unbroadcast = @ \cup {sessionId}]

\* lookupMediaFilename answers without a query: blank id, or cached
lookupIsImmediate(mediaId) == TrimOrEmpty(mediaId) = "" \/ TrimOrEmpty(mediaId) \in mediaFilenameById

\* publishExternalSyncUpdate(update), up to its first suspension: the commit, and the
\* broadcast too when lookupMediaFilename does not have to query the catalog
publishExternalSyncUpdate(update) ==
  /\ upsertSyncPlaybackState(update)
  /\ IF lookupIsImmediate(update.mediaId)
     THEN /\ UNCHANGED pendingPublish
          /\ Broadcast(update.sessionId, [hist EXCEPT !.cleared = @ \cup {update.sessionId}])
     ELSE /\ Len(pendingPublish) < MaxPending
          /\ pendingPublish' = Append(pendingPublish,
                                      [sessionId |-> update.sessionId, mediaId |-> update.mediaId])
          /\ sent' = {}
          /\ hist' = [hist EXCEPT !.cleared = @ \cup {update.sessionId},
                                  !.unbroadcast = @ \cup {update.sessionId}]

\* a VR adapter calls onVrSync(update)
ExternalPublish(update) ==
  /\ UNCHANGED <<scanVars, deovrVars, writeFails, thumbVars>>
  /\ ops < MaxOps
  /\ ops' = ops + 1
  /\ UNCHANGED <<now, sessionPlayAt, sessionPlayAtLocalMs, sessionCapturedAtLocalMs,
                 clientMetadata, clientUiStatus, clientsById, sockets, mediaFilenameById>>
  /\ lastOp' = [Op("publishExternalSyncUpdate") EXCEPT !.sessionId = update.sessionId,
                  !.clientId = update.fromClientId, !.accepted = TRUE]
  /\ publishExternalSyncUpdate(update)

\* the catalog query of a suspended publishExternalSyncUpdate returns: cache, log, broadcast
PublishResume(i) ==
  /\ UNCHANGED <<scanVars, deovrVars, writeFails, thumbVars>>
  /\ i \in 1 .. Len(pendingPublish)
  /\ \E sid \in {pendingPublish[i].sessionId}, mid \in {pendingPublish[i].mediaId} :
       /\ pendingPublish' = [j \in 1 .. (Len(pendingPublish) - 1) |->
                               IF j < i THEN pendingPublish[j] ELSE pendingPublish[j + 1]]
       /\ mediaFilenameById' = mediaFilenameById \cup {TrimOrEmpty(mid)}
       /\ UNCHANGED <<now, syncStateBySession, sessionPlayAt, sessionPlayAtLocalMs,
                      sessionCapturedAtLocalMs, clientMetadata, clientUiStatus, clientsById,
                      sockets, ops>>
       /\ lastOp' = [Op("publishExternalSyncUpdate:resume") EXCEPT !.sessionId = sid,
                       !.accepted = TRUE]
       /\ Broadcast(sid, hist)

\* the wall clock advances (Date.now() is taken to be non-decreasing)
Tick ==
  /\ UNCHANGED <<scanVars, deovrVars, writeFails, thumbVars>>
  /\ now < MaxNow
  /\ now' = now + 1
  /\ sent' = {}
  /\ lastOp' = Op("tick")
  /\ UNCHANGED <<syncStateBySession, sessionPlayAt, sessionPlayAtLocalMs,
                 sessionCapturedAtLocalMs, clientMetadata, clientUiStatus, clientsById,
                 sockets, mediaFilenameById, pendingPublish, ops, hist>>

(***************************************************************************)
(* The inputs the handlers are driven with.  A specification draws the     *)
(* messages of each handler from its own small sets: the fields its claims *)
(* are about vary, the others keep the value of the base message.          *)
(***************************************************************************)
Hello(c, s) == [clientId |-> c, sessionId |-> s]

Status(v, m) == [clientId |-> Undef, sessionId |-> Undef, uiView |-> v, mediaId |-> m]

BaseUpdate ==
  [clientId |-> Undef, sessionId |-> Undef, mediaId |-> "m1", timeMs |-> Num(12345),
   paused |-> FALSE, fps |-> Num(30), frame |-> Num(370), playAt |-> Undef,
   playAtLocalMs |-> NotNumber, capturedAtLocalMs |-> NotNumber, toClientId |-> Undef,
   seek |-> NoSeekIn]

SeekFull ==
  [openInUi |-> "true", seekToken |-> "t1", seekPhase |-> "prepare", seekWantPlay |-> "false",
   seekTargetClientId |-> "A"]

SeekOdd ==
  [openInUi |-> "false", seekToken |-> " ", seekPhase |-> NonString, seekWantPlay |-> "true",
   seekTargetClientId |-> Undef]

Put(s, c, m, p) ==
  [sessionId |-> s, clientId |-> c, mediaId |-> m, timeMs |-> Num(500), paused |-> p,
   fps |-> NotNumber, frame |-> Num(15)]

\* the open hint of a VR player (DeoVR, HereSphere)
VrHint(s) ==
  [sessionId |-> s, mediaId |-> "m7", fromClientId |-> "vr:deovr", timeMs |-> Num(0),
   paused |-> FALSE, fps |-> Num(30), frame |-> Num(0)]

\* a HereSphere event, or a DeoVR heartbeat publish
VrEvent(s, p) ==
  [sessionId |-> s, mediaId |-> "m7", fromClientId |-> "vr:heresphere", timeMs |-> Num(5000),
   paused |-> p, fps |-> Num(30), frame |-> Num(150)]

(***************************************************************************)
(* The scanner and the DeoVR heartbeat when the server has just started.   *)
(***************************************************************************)
\* the files of the media root
Paths == {"a.mp4", " a.mp4", "a_180_sbs.mp4", "b.jpg", "n.txt"}

\* the keys md5(inputPath:width:offset) of the thumbnail requests, and an empty cache
ThumbKeys == {"k1", "k2"}
NoThumb == [out |-> FALSE, failTs |-> 0]

\* main() has started the initial scan in the background; scanProgress is untouched
ScanInit ==
  /\ scanProgress = [isScanning |-> FALSE]
  /\ scanRuns = {[id |-> 0, origin |-> "startup", phase |-> "walk"]}
  /\ mediaItems = {}
  /\ disk = [p \in Paths |-> "ok"]
  /\ probeVr = {}
  /\ pool = {}

\* the constants of the DeoVR heartbeat inferrer, in milliseconds
DEOVR_FPS == 30
DEOVR_PUBLISH_MIN_MS == 750
DEOVR_FORGET_MS == 60000
DEOVR_INSTANT_PAUSE_DEBOUNCE_MS == 125
DEOVR_IDLE_PAUSE_MS == 650
DEOVR_TICK_MS == 1000
\* the periods of the forget sweep and of the idle check
FORGET_SWEEP_MS == 5000
IDLE_CHECK_MS == 200

\* buildApiRouter has armed the forget sweep; no VR player has asked for a stream.
\* A timer is known by its position in timers; 0 stands for null.
DeovrInit ==
  /\ deovrStates = <<>>
  /\ deovrPlaybackByKey = EmptyMap
  /\ lastVrStreamMediaByClient = EmptyMap
  /\ streamResponses = <<>>
  /\ timers = <<[kind |-> "forget", st |-> 0, due |-> now + FORGET_SWEEP_MS, armed |-> TRUE]>>
  /\ vrOut = {}
  /\ vrHist = [lastRequested |-> EmptyMap, lastPlaying |-> EmptyMap, endedAt |-> <<>>,
               openedAt |-> <<>>]

(***************************************************************************)
(* The hub as a state machine.                                             *)
(***************************************************************************)
Init ==
  /\ now = 1
  /\ syncStateBySession = EmptyMap
  /\ sessionPlayAt = EmptyMap
  /\ sessionPlayAtLocalMs = EmptyMap
  /\ sessionCapturedAtLocalMs = EmptyMap
  /\ clientMetadata = EmptyMap
  /\ clientUiStatus = EmptyMap
  /\ clientsById = EmptyMap
  /\ sockets = [w \in Sockets |->
                  [readyState |-> 0, clientId |-> Undef, sessionId |-> Undef, userAgent |-> Undef]]
  /\ mediaFilenameById = {}
  /\ pendingPublish = <<>>
  /\ sent = {}
  /\ lastOp = Op("init")
  /\ ops = 0
  /\ hist = [cleared |-> {}, departed |-> {}, unbroadcast |-> {},
             lastBcastAt |-> [s \in SessionIds |-> 0]]
  /\ ScanInit
  /\ DeovrInit
  /\ writeFails = {}
  /\ thumbCache = [k \in ThumbKeys |-> NoThumb]

\* the steps of the server when its handlers receive the given messages
NextOver(hellos, statuses, updates, puts, publishes) ==
  \/ \E w \in Sockets : Connect(w)
  \/ \E w \in Sockets : SocketClosing(w)
  \/ \E w \in Sockets : OnClose(w)
  \/ \E w \in Sockets, msg \in hellos : WsHello(w, msg)
  \/ \E w \in Sockets, msg \in statuses : WsClientStatus(w, msg)
  \/ \E w \in Sockets, msg \in updates : WsSyncUpdate(w, msg)
  \/ \E body \in puts : HttpPutSync(body)
  \/ \E update \in publishes : ExternalPublish(update)
  \/ \E i \in 1 .. MaxPending : PublishResume(i)
  \/ Tick

(***************************************************************************)
(* Scheduling: playAt and its clearing, on every path that commits.        *)
(***************************************************************************)
SchedHellos == {Hello("A", Undef)}
SchedStatuses == {Status("player", Null)}
SchedUpdates ==
  { [BaseUpdate EXCEPT !.clientId = "B", !.paused = p, !.playAt = pa, !.toClientId = t]
    : p \in BOOLEAN, pa \in {Undef, "soon", "2030-01-01T00:00:01Z"}, t \in {Undef, "A"} }
SchedPuts == {Put(Undef, "A", "m1", p) : p \in BOOLEAN}
SchedPublishes == {VrEvent("default", p) : p \in BOOLEAN}

SchedNext == NextOver(SchedHellos, SchedStatuses, SchedUpdates, SchedPuts, SchedPublishes)
SchedSpec == Init /\ [][SchedNext]_vars

(***************************************************************************)
(* Routing: targeted updates and what they leave alone.                    *)
(***************************************************************************)
RoutingHellos == {Hello("A", Undef), Hello("B", Undef)}
RoutingStatuses == {Status("player", Null)}
RoutingUpdates ==
  { [BaseUpdate EXCEPT !.toClientId = t, !.seek = k, !.timeMs = Num(60000), !.frame = Num(1800)]
    : t \in {"A", " B "}, k \in {SeekFull, SeekOdd} }
  \cup {BaseUpdate, [BaseUpdate EXCEPT !.clientId = "A", !.sessionId = " s1 ", !.paused = TRUE]}
RoutingPuts == {Put(Undef, "A", Null, TRUE)}
RoutingPublishes == {VrHint("default")}

RoutingNext ==
  NextOver(RoutingHellos, RoutingStatuses, RoutingUpdates, RoutingPuts, RoutingPublishes)
RoutingSpec == Init /\ [][RoutingNext]_vars

(***************************************************************************)
(* Presence: hello, rekey and close.                                       *)
(***************************************************************************)
PresenceHellos == {Hello("A", Undef), Hello("B", Undef), Hello(" ", " s1 ")}
PresenceStatuses == {Status("player", "m1")}
PresenceUpdates == {BaseUpdate, [BaseUpdate EXCEPT !.toClientId = "A"]}
PresencePuts == {Put(Undef, "A", "m1", FALSE)}
PresencePublishes == {VrHint("default")}

PresenceNext ==
  NextOver(PresenceHellos, PresenceStatuses, PresenceUpdates, PresencePuts, PresencePublishes)
PresenceSpec == Init /\ [][PresenceNext]_vars

(***************************************************************************)
(* Commit and broadcast: every writer of the store, and the clock.         *)
(***************************************************************************)
CommitHellos == {Hello("A", Undef)}
CommitStatuses == {Status("player", Null)}
CommitUpdates ==
  {[BaseUpdate EXCEPT !.clientId = "A", !.sessionId = s] : s \in {Undef, " s1 "}}
  \cup {[BaseUpdate EXCEPT !.clientId = "A", !.toClientId = "A"], [BaseUpdate EXCEPT !.mediaId = " "]}
CommitPuts == {Put(s, c, "m1", TRUE) : s \in {Undef, " s1 "}, c \in {"P", " "}}
CommitPublishes == {VrHint(s) : s \in SessionIds} \cup {VrEvent("default", TRUE)}

CommitNext ==
  NextOver(CommitHellos, CommitStatuses, CommitUpdates, CommitPuts, CommitPublishes)
CommitSpec == Init /\ [][CommitNext]_vars

(***************************************************************************)
(* The store on its own: upsert and get called with arbitrary numbers, and *)
(* PUT /sync with a body whose timeMs JSON.parse reads as Infinity.        *)
(***************************************************************************)
\* a direct call of upsertSyncPlaybackState(input)
StoreUpsert(input) ==
  /\ UNCHANGED <<scanVars, deovrVars, writeFails, thumbVars>>
  /\ ops < MaxOps
  /\ ops' = ops + 1
  /\ upsertSyncPlaybackState(input)
  /\ lastOp' = [Op("upsertSyncPlaybackState") EXCEPT !.accepted = TRUE, !.arg = input,
                  !.result = [f \in DOMAIN NoArg |-> upsertNext(input)[f]],
                  !.sessionId = upsertNext(input).sessionId]
  /\ sent' = {}
  /\ UNCHANGED <<now, sessionPlayAt, sessionPlayAtLocalMs, sessionCapturedAtLocalMs,
                 clientMetadata, clientUiStatus, clientsById, sockets, mediaFilenameById,
                 pendingPublish, hist>>

\* GET /sync?sessionId=...: getSyncPlaybackState(sessionId), nothing is written
HttpGetSync(sessionId) ==
  /\ UNCHANGED <<scanVars, deovrVars, writeFails, thumbVars>>
  /\ ops < MaxOps
  /\ ops' = ops + 1
  /\ lastOp' = [Op("GET /sync") EXCEPT
                  !.accepted = MapHas(syncStateBySession, TrimOrDefault(sessionId, "default")),
                  !.sessionId = sessionId,
                  !.result = [f \in DOMAIN NoArg |-> getSyncPlaybackState(sessionId)[f]]]
  /\ sent' = {}
  /\ UNCHANGED <<now, syncStateBySession, sessionPlayAt, sessionPlayAtLocalMs,
                 sessionCapturedAtLocalMs, clientMetadata, clientUiStatus, clientsById, sockets,
                 mediaFilenameById, pendingPublish, hist>>

StoreBase ==
  [sessionId |-> Undef, mediaId |-> " m1 ", timeMs |-> Num(7), paused |-> FALSE,
   fps |-> Num(60), frame |-> Num(3), fromClientId |-> "A"]

StoreNumbers == {Half(3), Half(-3), Num(0), PosInf, NegInf, NaN, NotNumber}

StoreInputs ==
  {[StoreBase EXCEPT !.timeMs = n] : n \in StoreNumbers}
  \cup {[StoreBase EXCEPT !.fps = n] : n \in {Half(1), Num(0), NotNumber}}
  \cup {[StoreBase EXCEPT !.frame = n] : n \in {Half(5), Num(-1), NaN}}
  \cup {[StoreBase EXCEPT !.sessionId = " s1 ", !.paused = TRUE, !.mediaId = Null]}

StorePuts == {[Put(" s1 ", "P", "m1", FALSE) EXCEPT !.timeMs = n] : n \in {PosInf, Half(3)}}

StoreNext ==
  \/ \E input \in StoreInputs : StoreUpsert(input)
  \/ \E sessionId \in {Undef, " ", "s1", " s1 "} : HttpGetSync(sessionId)
  \/ \E body \in StorePuts : HttpPutSync(body)
  \/ Tick
StoreSpec == Init /\ [][StoreNext]_vars

(***************************************************************************)
(* Claims about scheduling (SchedSpec).                                    *)
(***************************************************************************)
\* C1: no sync:state message, broadcast or unicast, whose state is paused carries a playAt,
\* whatever playAt earlier updates supplied.
C1_PausedCarriesNoPlayAt ==
  \A m \in sent : m.state.base.paused => m.state.playAt = Absent

\* a paused state is broadcast while the session still holds a scheduled playAt
C1_Witness ==
  \E m \in sent : /\ m.kind = "broadcast"
                  /\ m.to # {}
                  /\ m.state.base.paused
                  /\ MapHas(sessionPlayAt, m.sessionId)

\* C2: once a committed update that is paused or omits playAt has been accepted for a session,
\* on any commit path, no broadcast of the session carries a playAt until a later update
\* supplies a new one.
C2_ClearedPlayAtStaysCleared ==
  \A m \in sent : (m.kind = "broadcast" /\ m.sessionId \in hist.cleared) => m.state.playAt = Absent

(***************************************************************************)
(* Claims about routing (RoutingSpec).                                     *)
(***************************************************************************)
\* C3: a sync:update with a non-empty toClientId never commits: the state GET /sync returns
\* is the same before and after it, for every session, whether or not the target exists.
C3_TargetedNeverCommits ==
  [][(lastOp'.op = "sync:update" /\ lastOp'.targeted)
       => \A s \in SessionIds : getSyncPlaybackState(s)' = getSyncPlaybackState(s)]_vars

\* a targeted update was delivered whose state differs from the stored state of its session
C3_Witness ==
  /\ lastOp.op = "sync:update"
  /\ lastOp.targeted
  /\ \E m \in sent : /\ m.to # {}
                     /\ MapHas(syncStateBySession, m.sessionId)
                     /\ m.state.base.timeMs # getSyncPlaybackState(m.sessionId).timeMs

\* a string field of the seek handshake was supplied: a non-blank string
C4_Supplied(v) == v \notin {Undef, Null, NonString} /\ v \notin {"", " "}

\* the open sockets whose last hello registered them as clientId
C4_OpenSocketsOf(clientId) ==
  {w \in Sockets : sockets[w].readyState = 1 /\ sockets[w].clientId = clientId}

\* C4: a targeted update to T is delivered to every open socket registered under T and to no
\* other socket; the delivered state carries the sender's id as fromClientId and the
\* seek-handshake fields the update supplied.
C4_TargetedDelivery ==
  (lastOp.op = "sync:update" /\ lastOp.targeted) =>
    /\ C4_OpenSocketsOf(lastOp.toClientId) # {} => sent # {}
    /\ \A m \in sent :
         /\ m.kind = "unicast"
         /\ m.to = C4_OpenSocketsOf(lastOp.toClientId)
         /\ m.state.base.fromClientId = lastOp.clientId
         /\ lastOp.seekIn.openInUi = "true" => m.state.seek.openInUi = "true"
         /\ C4_Supplied(lastOp.seekIn.seekToken)
              => m.state.seek.seekToken = lastOp.seekIn.seekToken
         /\ C4_Supplied(lastOp.seekIn.seekPhase)
              => m.state.seek.seekPhase = lastOp.seekIn.seekPhase
         /\ lastOp.seekIn.seekWantPlay # Undef
              => m.state.seek.seekWantPlay = lastOp.seekIn.seekWantPlay
         /\ C4_Supplied(lastOp.seekIn.seekTargetClientId)
              => m.state.seek.seekTargetClientId = lastOp.seekIn.seekTargetClientId

\* a targeted update with the full handshake reached its target and not its sender
C4_Witness ==
  /\ lastOp.op = "sync:update"
  /\ lastOp.targeted
  /\ \E m \in sent : /\ m.to # {}
                     /\ lastOp.ws \notin m.to
                     /\ sockets[lastOp.ws].readyState = 1
                     /\ m.state.seek.seekToken = "t1"

(***************************************************************************)
(* Claims about presence (PresenceSpec).                                   *)
(***************************************************************************)
\* the clientIds listed by a sync:state message
ListedClients(m) == {c.clientId : c \in m.clients}

\* C5: every clientId that still has an open registered socket appears in the clients list
\* of every broadcast; closing or rekeying one of several sockets of a clientId does not
\* remove its presence.
C5_PresenceWhileSocketOpen ==
  \A m \in sent :
    m.kind = "broadcast" =>
      \A w \in Sockets :
        (sockets[w].readyState = 1 /\ sockets[w].clientId # Undef)
          => sockets[w].clientId \in ListedClients(m)

\* C6: when the last socket of a clientId closes, a broadcast is emitted, and the clients
\* list of that broadcast and of every later sync:state omits the clientId until it says
\* sync:hello again.
C6_DepartedClientOmitted ==
  /\ (lastOp.op = "close" /\ lastOp.wasLast)
       => \E m \in sent : m.kind = "broadcast" /\ lastOp.clientId \notin ListedClients(m)
  /\ \A m \in sent : ListedClients(m) \cap hist.departed = {}

\* the last socket of a client closed while another client was listening and listed
C6_Witness ==
  /\ lastOp.op = "close"
  /\ lastOp.wasLast
  /\ lastOp.clientId \in hist.departed
  /\ \E m \in sent : m.kind = "broadcast" /\ m.to # {} /\ ListedClients(m) # {}

(***************************************************************************)
(* Claims about commit and broadcast (CommitSpec).                         *)
(***************************************************************************)
\* C7: every accepted non-targeted update, on every path that commits, is followed by a
\* broadcast carrying that commit or a later one: a session whose last commit has not been
\* broadcast has a publish in flight that will broadcast it.
C7_CommitIsBroadcast ==
  \A s \in hist.unbroadcast : \E i \in 1 .. Len(pendingPublish) : pendingPublish[i].sessionId = s

\* C8: a broadcast of a session carries the state committed in the store; GET /sync after a
\* broadcast returns a state whose updatedAt is at least the broadcast's; successive
\* broadcasts of a session never go back in updatedAt.
C8_BroadcastFollowsStore ==
  /\ [](\A m \in sent : m.kind = "broadcast" => m.state.base = getSyncPlaybackState(m.sessionId))
  /\ [](\A s \in SessionIds : hist.lastBcastAt[s] <= getSyncPlaybackState(s).updatedAt)
  /\ [][\A s \in SessionIds : hist.lastBcastAt[s] <= hist.lastBcastAt'[s]]_vars

\* a suspended publish resumed after another writer had committed later, and its broadcast
\* carries the later commit
C8_Witness ==
  /\ lastOp.op = "publishExternalSyncUpdate:resume"
  /\ \E m \in sent : /\ m.kind = "broadcast"
                     /\ m.to # {}
                     /\ m.state.base.fromClientId \in {"A", "P"}
                     /\ m.state.base.updatedAt = MaxNow

\* the session a stored key stands for: trimmed, blank replaced by "default"
C10_SessionOf(k) ==
  CASE k \in {"s1", " s1 "} -> "s1"
    [] k \in {"default", "", " ", Undef, Null} -> "default"
    [] OTHER -> k

\* C10: across any sequence of commits from any writer the stored updatedAt of a session
\* never decreases, and there is at most one stored state per (trimmed, default-substituted)
\* sessionId.
C10_OneStateMonotonicUpdatedAt ==
  /\ [](\A e1, e2 \in syncStateBySession :
          C10_SessionOf(e1.k) = C10_SessionOf(e2.k) => e1 = e2)
  /\ [][\A e1 \in syncStateBySession : \A e2 \in syncStateBySession' :
          C10_SessionOf(e1.k) = C10_SessionOf(e2.k) => e1.v.updatedAt <= e2.v.updatedAt]_vars

\* PUT /sync with sessionId " s1 " overwrote, at a later time, the state another writer had
\* committed and broadcast for session s1
C10_Witness ==
  /\ lastOp.op = "PUT /sync"
  /\ lastOp.accepted
  /\ lastOp.sessionId = "s1"
  /\ hist.lastBcastAt["s1"] = 1
  /\ getSyncPlaybackState("s1").updatedAt = MaxNow
  /\ Cardinality(syncStateBySession) = 2

(***************************************************************************)
(* Claims about the store (StoreSpec).                                     *)
(***************************************************************************)
\* a non-negative integer / an integer >= lo, as a JavaScript number
C9_IsIntegerAtLeast(v, lo) == v.t = "num" /\ v.h % 2 = 0 /\ v.h >= 2 * lo

\* C9: after upsert(u), get(u.sessionId) returns exactly what the upsert returned, with
\* timeMs and frame non-negative integers, fps an integer >= 1, paused and fromClientId as
\* given; a session that was never written reads as the default state.
C9_UpsertThenGet ==
  /\ lastOp.op = "upsertSyncPlaybackState" =>
       /\ [f \in DOMAIN NoArg |-> getSyncPlaybackState(lastOp.arg.sessionId)[f]] = lastOp.result
       /\ C9_IsIntegerAtLeast(lastOp.result.timeMs, 0)
       /\ C9_IsIntegerAtLeast(lastOp.result.frame, 0)
       /\ C9_IsIntegerAtLeast(lastOp.result.fps, 1)
       /\ lastOp.result.paused = lastOp.arg.paused
       /\ lastOp.result.fromClientId = lastOp.arg.fromClientId
  /\ (lastOp.op = "GET /sync" /\ ~lastOp.accepted) =>
       /\ lastOp.result.mediaId = Null
       /\ lastOp.result.timeMs = Num(0)
       /\ lastOp.result.paused
       /\ lastOp.result.fps = Num(30)
       /\ lastOp.result.frame = Num(0)
       /\ ~MapHas(syncStateBySession, TrimOrDefault(lastOp.sessionId, "default"))

(***************************************************************************)
(* mediaScanner.ts: the HereSphere event receiver.                         *)
(***************************************************************************)
\* the id field of an event: an absolute URL with the given path segments, a string that
\* is not an absolute URL, a blank string, or a value that is not a string
HsUrl(segs) == [kind |-> "url", segments |-> segs]
HsText(segs) == [kind |-> "text", segments |-> segs]
HsBlank == [kind |-> "blank", segments |-> <<>>]
HsNonString == [kind |-> "nonstring", segments |-> <<>>]

\* decodeURIComponent on the path segments of the model
DecodeURIComponent(s) ==
  CASE s = "%20" -> " "
    [] s = "m%207" -> "m 7"
    [] OTHER -> s

\* the positions at which /heresphere/video/<segment> starts
HsVideoAt(segs) ==
  {i \in 1 .. Len(segs) - 2 : segs[i] = "heresphere" /\ segs[i + 1] = "video" /\ segs[i + 2] # ""}

\* the minimum of a non-empty set of integers
SetMin(S) == CHOOSE x \in S : \A y \in S : x <= y

SetMax(S) == CHOOSE x \in S : \A y \in S : x >= y

parseVideoIdFromHereSphereEventId(idField) ==
  IF idField.kind \in {"nonstring", "blank"} THEN Null
  ELSE IF idField.kind = "url" /\ Len(idField.segments) - 2 \in HsVideoAt(idField.segments)
       THEN DecodeURIComponent(idField.segments[Len(idField.segments)])
       ELSE IF HsVideoAt(idField.segments) # {}
            THEN DecodeURIComponent(idField.segments[SetMin(HsVideoAt(idField.segments)) + 2])
            ELSE Null

\* the times at which the double product (timeMs / 1000) * 30 falls just below the integer
\* timeMs * 30 / 1000, up to 10 s
FrameRoundingLoss ==
  {4100, 8200, 16400, 16900, 32300, 32800, 33300, 33800, 64100, 64600, 65100, 65600, 66100,
   66600, 67100, 67600, 68100}

\* Math.max(0, Math.floor((timeMs / 1000) * fps)) for fps = 30 and an integer timeMs >= 0
FrameAt(timeMs) ==
  LET n == timeMs.h \div 2
  IN IF n \in FrameRoundingLoss THEN Num(((n * 30) \div 1000) - 1) ELSE Num((n * 30) \div 1000)

\* the update POST /heresphere/event hands to onVrSync
HereSphereUpdate(query, body, mediaId) ==
  LET timeMs == IF IsFiniteNumber(ToNumber(body.time))
                THEN MathMax(0, MathRound(ToNumber(body.time))) ELSE Num(0)
      evt == IF IsFiniteNumber(ToNumber(body.event)) THEN ToNumber(body.event) ELSE NotNumber
      connectionKey == IF IsString(body.connectionKey) THEN Trim(body.connectionKey) ELSE ""
  IN [sessionId |-> TrimOrDefault(query.sessionId, "default"),
      mediaId |-> mediaId,
      fromClientId |-> IF connectionKey # "" THEN "vr:heresphere:" \o connectionKey
                       ELSE "vr:heresphere",
      timeMs |-> timeMs,
      paused |-> evt \in {Num(2), Num(0), Num(3)},
      fps |-> Num(30),
      frame |-> FrameAt(timeMs)]

\* POST /heresphere/event, up to the suspension of the publish; the 204 follows the publish
HttpHereSphereEvent(query, body) ==
  \E mediaId \in {parseVideoIdFromHereSphereEventId(body.id)} :
    \E update \in {HereSphereUpdate(query, body, mediaId)} :
      /\ UNCHANGED <<scanVars, deovrVars, writeFails, thumbVars>>
      /\ ops < MaxOps
      /\ ops' = ops + 1
      /\ UNCHANGED <<now, sessionPlayAt, sessionPlayAtLocalMs, sessionCapturedAtLocalMs,
                     clientMetadata, clientUiStatus, clientsById, sockets, mediaFilenameById>>
      /\ lastOp' = [Op("POST /heresphere/event") EXCEPT !.sessionId = update.sessionId,
                      !.clientId = update.fromClientId, !.accepted = mediaId # Null,
                      !.arg = [query |-> query, body |-> body],
                      !.result = [status |-> 204, headers |-> {}]]
      /\ IF mediaId # Null
         THEN publishExternalSyncUpdate(update)
         ELSE /\ UNCHANGED <<syncStateBySession, pendingPublish, hist>>
              /\ sent' = {}

HsEvent(id, time, event) == [id |-> id, time |-> time, event |-> event, connectionKey |-> Undef]
HsQuery(s) == [sessionId |-> s]

(***************************************************************************)
(* VR adapters: the HereSphere events next to the other writers.           *)
(***************************************************************************)
VrHellos == {Hello("A", Undef)}
VrStatuses == {Status("player", Null)}
VrUpdates == {BaseUpdate}
VrPuts == {Put(Undef, "P", Null, TRUE)}
VrPublishes == {VrHint("default")}
VrEventIds ==
  {HsUrl(<<"heresphere", "video", "m7">>), HsUrl(<<"heresphere", "video", "%20">>),
   HsUrl(<<"heresphere", "video", "m%207", "info">>), HsText(<<"heresphere", "video", "m7">>),
   HsUrl(<<"heresphere">>), HsBlank, HsNonString}
VrEvents ==
  {HsEvent(id, Num(5000), Num(1)) : id \in VrEventIds}
  \cup {HsEvent(HsUrl(<<"heresphere", "video", "m7">>), t, Num(1))
          : t \in {Num(4100), Half(-3), Half(3001), NotNumber}}
  \cup {HsEvent(HsUrl(<<"heresphere", "video", "m7">>), Num(5000), e)
          : e \in {Num(0), Num(2), Num(3), Num(4), Half(5), NotNumber}}
  \cup {[HsEvent(HsUrl(<<"heresphere", "video", "m7">>), Num(5000), Num(1))
           EXCEPT !.connectionKey = " A "]}

VrQueries == {<<HsQuery(Undef), body>> : body \in VrEvents}
             \cup {<<HsQuery(" s1 "), HsEvent(HsUrl(<<"heresphere", "video", "m7">>), Num(5000), Num(2))>>}

VrNext ==
  \/ NextOver(VrHellos, VrStatuses, VrUpdates, VrPuts, VrPublishes)
  \/ \E request \in VrQueries : HttpHereSphereEvent(request[1], request[2])
VrSpec == Init /\ [][VrNext]_vars

\* C11: the mediaId stored for any session is null or a non-empty string, whichever path
\* wrote it.
C11_StoredMediaIdNeverEmpty ==
  \A e \in syncStateBySession : e.v.mediaId = Null \/ e.v.mediaId # ""

\* C17: an event whose id field holds a /heresphere/video/<id> URL commits, to the session of
\* the query, mediaId <id>, timeMs = max(0, round(time)), fps 30,
\* frame = floor(timeMs * 30 / 1000), the HereSphere client id, and paused exactly when the
\* event is 0, 2 or 3; it is broadcast (or its broadcast is pending) and answered 204.
\* (Stated for a numeric time and a non-blank <id>; the blank <id> is the case of C11.)
C17_EventCommit ==
  (lastOp.op = "POST /heresphere/event" /\ lastOp.accepted
     /\ IsFiniteNumber(lastOp.arg.body.time)
     /\ Trim(DecodeURIComponent(lastOp.arg.body.id.segments[3])) # "") =>
    LET body == lastOp.arg.body
        stored == getSyncPlaybackState(lastOp.arg.query.sessionId)
        ms == IF body.time.h <= 0 THEN 0 ELSE (body.time.h + 1) \div 2
    IN /\ stored.sessionId = (IF lastOp.arg.query.sessionId = Undef THEN "default" ELSE "s1")
       /\ stored.mediaId = DecodeURIComponent(body.id.segments[3])
       /\ stored.timeMs = Num(ms)
       /\ stored.fps = Num(30)
       /\ stored.frame = Num((ms * 30) \div 1000)
       /\ stored.fromClientId \in {"vr:heresphere", "vr:heresphere:A"}
       /\ stored.paused = (body.event \in {Num(0), Num(2), Num(3)})
       /\ lastOp.result.status = 204
       /\ \/ \E m \in sent : m.kind = "broadcast" /\ m.sessionId = stored.sessionId
          \/ \E i \in 1 .. Len(pendingPublish) : pendingPublish[i].sessionId = stored.sessionId

(***************************************************************************)
(* api.ts: the Range handling of GET /media/:id/stream.                    *)
(***************************************************************************)
\* Number(digits) for a string of decimal digits
RECURSIVE DigitsValue(_)
DigitsValue(ds) ==
  IF ds = <<>> THEN 0 ELSE 10 * DigitsValue(SubSeq(ds, 1, Len(ds) - 1)) + ds[Len(ds)]

\* the Range header: absent, or <unit>=<first>-<last> with digit strings first and last
NoRange == [present |-> FALSE, unit |-> "", first |-> <<>>, last |-> <<>>]
RangeHeader(unit, first, last) == [present |-> TRUE, unit |-> unit, first |-> first, last |-> last]

\* /^bytes=(\d+)-(\d*)$/i matches
RangeMatches(range) == range.present /\ range.unit \in {"bytes", "BYTES"} /\ range.first # <<>>

\* a larger end than the file is cut to the last byte: end as requested
RangeEndUnclamped(start, last, size) ==
  IF last # <<>> THEN (IF start >= DigitsValue(last) THEN start ELSE DigitsValue(last))
  ELSE size - 1

\* end = Number.isFinite(endRaw) ? Math.min(size - 1, Math.max(start, endRaw)) : size - 1
RangeEnd(start, last, size) ==
  IF last # <<>>
  THEN LET hi == IF start >= DigitsValue(last) THEN start ELSE DigitsValue(last)
       IN IF hi <= size - 1 THEN hi ELSE size - 1
  ELSE size - 1

NoContentRange == [unit |-> "", start |-> -1, end |-> -1, size |-> -1]

\* the status, headers and body (as the byte interval read from the file) of the response
StreamResponse(size, range) ==
  IF RangeMatches(range)
  THEN LET start == DigitsValue(range.first)
           end == RangeEnd(start, range.last, size)
       IN IF ~(start >= 0 /\ start < size /\ end >= start /\ end < size)
          THEN [status |-> 416,
                contentRange |-> [unit |-> "bytes", start |-> -1, end |-> -1, size |-> size],
                contentLength |-> -1, body |-> {}]
          ELSE [status |-> 206,
                contentRange |-> [unit |-> "bytes", start |-> start, end |-> end, size |-> size],
                contentLength |-> end - start + 1, body |-> start .. end]
  ELSE [status |-> 200, contentRange |-> NoContentRange, contentLength |-> size,
        body |-> 0 .. size - 1]

\* GET /media/:id/stream of a catalogued file of the given size, from a client that is not a
\* VR player: the response
HttpGetStream(size, range) ==
  /\ UNCHANGED <<scanVars, deovrVars, writeFails, thumbVars>>
  /\ ops < MaxOps
  /\ ops' = ops + 1
  /\ size > 0
  /\ lastOp' = [Op("GET /media/:id/stream") EXCEPT !.accepted = TRUE,
                  !.arg = [size |-> size, range |-> range],
                  !.result = StreamResponse(size, range)]
  /\ sent' = {}
  /\ UNCHANGED <<now, syncStateBySession, sessionPlayAt, sessionPlayAtLocalMs,
                 sessionCapturedAtLocalMs, clientMetadata, clientUiStatus, clientsById, sockets,
                 mediaFilenameById, pendingPublish, hist>>

MaxDigit == 2
RangeDigitStrings ==
  {<<a>> : a \in 0 .. MaxDigit} \cup {<<a, b>> : a \in 0 .. MaxDigit, b \in 0 .. MaxDigit}
RangeSizes == {1, 3, 12}
RangeHeaders ==
  {NoRange}
  \cup {RangeHeader("bytes", f, l) : f \in RangeDigitStrings, l \in RangeDigitStrings \cup {<<>>}}
  \cup {RangeHeader(u, <<1>>, <<2>>) : u \in {"BYTES", "items"}}
  \cup {RangeHeader("bytes", <<>>, <<2>>)}

RangeNext == \E size \in RangeSizes, range \in RangeHeaders : HttpGetStream(size, range)
RangeSpec == Init /\ [][RangeNext]_vars

\* C20: for a file of size n > 0 and bytes=s-e with s <= e, or bytes=s-: 416 with
\* Content-Range bytes */n and an empty body when s >= n; otherwise 206 with Content-Range
\* bytes s-E/n, E = min(e, n-1) (n-1 without e), Content-Length E-s+1 and
\* 0 <= s <= E <= n-1; without a Range header 200 with Content-Length n.
C20_RangeResponse ==
  lastOp.op = "GET /media/:id/stream" =>
    LET n == lastOp.arg.size
        range == lastOp.arg.range
        r == lastOp.result
        s == DigitsValue(range.first)
        e == DigitsValue(range.last)
        E == IF range.last = <<>> \/ e > n - 1 THEN n - 1 ELSE e
    IN /\ ~range.present => r.status = 200 /\ r.contentLength = n
       /\ (range.present /\ range.unit = "bytes" /\ range.first # <<>>
             /\ (range.last = <<>> \/ s <= e)) =>
            IF s >= n
            THEN /\ r.status = 416
                 /\ r.contentRange = [unit |-> "bytes", start |-> -1, end |-> -1, size |-> n]
                 /\ r.body = {}
            ELSE /\ r.status = 206
                 /\ r.contentRange = [unit |-> "bytes", start |-> s, end |-> E, size |-> n]
                 /\ r.contentLength = E - s + 1
                 /\ r.body = s .. E
                 /\ 0 <= s /\ s <= E /\ E <= n - 1

\* a range that starts inside the file and ends beyond it was answered 206, cut to the file
C20_Witness ==
  /\ lastOp.op = "GET /media/:id/stream"
  /\ lastOp.result.status = 206
  /\ lastOp.arg.range.last # <<>>
  /\ DigitsValue(lastOp.arg.range.first) > 0
  /\ DigitsValue(lastOp.arg.range.last) > lastOp.arg.size - 1
  /\ lastOp.result.contentRange.end = lastOp.arg.size - 1

(***************************************************************************)
(* The scanner: POST /scan, the scan started by main, and the cleanup of   *)
(* rows whose files are gone.                                              *)
(***************************************************************************)
StatOutcomes == {"ok", "ENOENT", "EACCES", "EPERM", "EIO"}

\* path.extname, on the files of the media root
extname(p) ==
  CASE p \in {"a.mp4", " a.mp4", "a_180_sbs.mp4"} -> ".mp4"
    [] p = "b.jpg" -> ".jpg"
    [] p = "n.txt" -> ".txt"
    [] OTHER -> ""

mediaTypeFromExt(ext) ==
  IF ext \in {".mp4", ".mkv", ".webm", ".mov", ".avi", ".m4v"} THEN "video"
  ELSE IF ext \in {".jpg", ".jpeg", ".png", ".gif", ".webp", ".bmp"} THEN "image"
  ELSE "other"

\* fs.stat of a path under the media root
StatOf(p) == IF p \in DOMAIN disk THEN disk[p] ELSE "ENOENT"

existsOnDisk(p) == StatOf(p) \in {"ok", "EACCES", "EPERM"}

\* the files the walk yields, and the rows the scan loop upserts for them
WalkedFiles == {p \in DOMAIN disk : disk[p] # "ENOENT"}

\* the tokens of a rel path that the separators / whitespace . _ - (or its ends) delimit
PathTokens(p) ==
  CASE p = "a.mp4" -> {"a", "mp4"}
    [] p = " a.mp4" -> {"", "a", "mp4"}
    [] p = "a_180_sbs.mp4" -> {"a", "180", "sbs", "mp4"}
    [] p = "b.jpg" -> {"b", "jpg"}
    [] p = "n.txt" -> {"n", "txt"}
    [] OTHER -> {}

\* no path of the model has a folder vr/ or the substrings vr180, vr360
isVrFromRelPath(relPath) ==
  LET hasToken(S) == PathTokens(relPath) \cap S # {}
      hasVrWord == hasToken({"vr"})
      hasStereo == hasToken({"lr", "rl", "sbs", "3dh", "tb", "bt", "ou", "overunder", "3dv"})
      hasFov == hasToken({"180", "360"})
      hasLrf == hasToken({"lrf"})
      hasFull == hasToken({"full"})
  IN \/ hasLrf /\ hasFull /\ hasStereo
     \/ hasFov /\ (hasStereo \/ hasVrWord)
     \/ hasStereo /\ hasVrWord

\* isVr as the scan loop computes it for a walked file: the probe, else the path heuristic
isVrOf(p) ==
  IF mediaTypeFromExt(extname(p)) = "video"
  THEN IF p \in probeVr THEN TRUE ELSE isVrFromRelPath(p)
  ELSE FALSE

\* newId() of the upsert of path p by the run: a value that no other call returns
newId(run, p) == ToString(run.id) \o ":" \o p

\* the is_vr the upsert stores over an existing row
conflictIsVr(row, excluded) == excluded.is_vr \/ row.is_vr

\* the id of a row after ON CONFLICT (rel_path) DO UPDATE
conflictIdReplaced(row, excluded) == excluded.id

conflictId(row, excluded) == row.id

\* INSERT ... ON CONFLICT (rel_path) DO UPDATE of the row of a walked file
upsertRow(run, p) ==
  LET excluded == [id |-> newId(run, p), rel_path |-> p,
                   media_type |-> mediaTypeFromExt(extname(p)), is_vr |-> isVrOf(p)]
  IN IF \E r \in mediaItems : r.rel_path = p
     THEN LET row == CHOOSE r \in mediaItems : r.rel_path = p
          IN [excluded EXCEPT !.id = conflictId(row, excluded),
                              !.is_vr = conflictIsVr(row, excluded)]
     ELSE excluded

UpsertedRows(run) ==
  {upsertRow(run, p) : p \in {q \in WalkedFiles : mediaTypeFromExt(extname(q)) # "other"}}

\* the rel paths the cleanup workers push to missing
MissingRels ==
  {Trim(row.rel_path) :
     row \in {r \in mediaItems : /\ r.rel_path # ""
                                 /\ r.media_type \in {"video", "image"}
                                 /\ Trim(r.rel_path) # ""
                                 /\ ~existsOnDisk(Trim(r.rel_path))}}

ScanStep(name) ==
  /\ sent' = {}
  /\ UNCHANGED <<now, syncStateBySession, sessionPlayAt, sessionPlayAtLocalMs,
                 sessionCapturedAtLocalMs, clientMetadata, clientUiStatus, clientsById, sockets,
                 mediaFilenameById, pendingPublish, hist, deovrVars, writeFails, thumbVars>>
  /\ UNCHANGED pool

\* variant: the end of a scan leaves scanProgress as the scan left it
ScanSettledSilently(run) == UNCHANGED scanProgress

\* the .then and .catch of POST /scan; the initial scan of main only logs
ScanSettled(run) ==
  IF run.origin = "POST /scan"
  THEN scanProgress' = [isScanning |-> FALSE]
  ELSE UNCHANGED scanProgress

HttpPostScan ==
  /\ ops < MaxOps
  /\ ops' = ops + 1
  /\ ScanStep("POST /scan")
  /\ UNCHANGED <<mediaItems, disk, probeVr>>
  /\ IF scanProgress.isScanning
     THEN /\ UNCHANGED <<scanProgress, scanRuns>>
          /\ lastOp' = [Op("POST /scan") EXCEPT !.arg = [running |-> Cardinality(scanRuns)],
                                               !.result = [status |-> 409]]
     ELSE /\ scanProgress' = [isScanning |-> TRUE]
          /\ scanRuns' = scanRuns \cup {[id |-> ops + 1, origin |-> "POST /scan", phase |-> "walk"]}
          /\ lastOp' = [Op("POST /scan") EXCEPT !.accepted = TRUE,
                                               !.arg = [running |-> Cardinality(scanRuns)],
                                               !.result = [status |-> 200]]

\* the scan loop of upsertMediaFromDisk: fs.stat of a walked file may throw
ScanWalk(run) ==
  /\ run \in scanRuns
  /\ run.phase = "walk"
  /\ ScanStep("scan:walk")
  /\ UNCHANGED <<ops, disk, probeVr>>
  /\ IF \E p \in WalkedFiles : disk[p] # "ok"
     THEN /\ scanRuns' = scanRuns \ {run}
          /\ ScanSettled(run)
          /\ UNCHANGED mediaItems
          /\ lastOp' = [Op("scan:walk") EXCEPT !.arg = run]
     ELSE /\ scanRuns' = (scanRuns \ {run}) \cup {[run EXCEPT !.phase = "cleanup"]}
          /\ mediaItems' = {r \in mediaItems :
                               r.rel_path \notin {u.rel_path : u \in UpsertedRows(run)}}
                             \cup UpsertedRows(run)
          /\ UNCHANGED scanProgress
          /\ lastOp' = [Op("scan:walk") EXCEPT !.accepted = TRUE, !.arg = run]

CleanupOutcomes == {"ok", "selectFails", "deleteFails"}

\* the cleanup of upsertMediaFromDisk, inside its try/catch
ScanCleanup(run, outcome) ==
  /\ run \in scanRuns
  /\ run.phase = "cleanup"
  /\ ScanStep("scan:cleanup")
  /\ UNCHANGED <<ops, disk, probeVr>>
  /\ scanRuns' = (scanRuns \ {run}) \cup {[run EXCEPT !.phase = "done"]}
  /\ outcome = "deleteFails" => MissingRels # {}
  /\ mediaItems' = IF outcome = "ok"
                   THEN {r \in mediaItems : r.rel_path \notin MissingRels}
                   ELSE mediaItems
  /\ IF run.origin = "POST /scan" /\ outcome # "selectFails" /\ MissingRels # {}
     THEN scanProgress' = [isScanning |-> TRUE]
     ELSE UNCHANGED scanProgress
  /\ lastOp' = [Op("scan:cleanup") EXCEPT !.accepted = (outcome = "ok"),
                  !.arg = [run |-> run, outcome |-> outcome],
                  !.result = [removed |-> IF outcome = "ok"
                                           THEN Cardinality({r \in mediaItems :
                                                               r.rel_path \in MissingRels})
                                           ELSE 0]]

\* upsertMediaFromDisk returns and the caller's .then runs
ScanFinish(run) ==
  /\ run \in scanRuns
  /\ run.phase = "done"
  /\ ScanStep("scan:finish")
  /\ UNCHANGED <<ops, disk, mediaItems, probeVr>>
  /\ scanRuns' = scanRuns \ {run}
  /\ ScanSettled(run)
  /\ lastOp' = [Op("scan:finish") EXCEPT !.accepted = TRUE, !.arg = run]

\* the media root changes under the server: a file disappears, comes back, loses its permissions
DiskChange(p, outcome) ==
  /\ ops < MaxOps
  /\ ops' = ops + 1
  /\ disk[p] # outcome
  /\ ScanStep("disk")
  /\ disk' = [disk EXCEPT ![p] = outcome]
  /\ UNCHANGED <<scanProgress, scanRuns, mediaItems, probeVr>>
  /\ lastOp' = [Op("disk") EXCEPT !.arg = [path |-> p, outcome |-> outcome]]

\* a video file of the media root is replaced by one whose metadata ffprobe reads otherwise
FileReplaced(p) ==
  /\ ops < MaxOps
  /\ ops' = ops + 1
  /\ mediaTypeFromExt(extname(p)) = "video"
  /\ ScanStep("file")
  /\ probeVr' = IF p \in probeVr THEN probeVr \ {p} ELSE probeVr \cup {p}
  /\ UNCHANGED <<scanProgress, scanRuns, mediaItems, disk>>
  /\ lastOp' = [Op("file") EXCEPT !.arg = [path |-> p]]

ScanNext ==
  \/ HttpPostScan
  \/ \E p \in Paths : FileReplaced(p)
  \/ \E run \in scanRuns : ScanWalk(run)
  \/ \E run \in scanRuns, outcome \in CleanupOutcomes : ScanCleanup(run, outcome)
  \/ \E run \in scanRuns : ScanFinish(run)
  \/ \E p \in Paths, outcome \in StatOutcomes : DiskChange(p, outcome)

ScanSpec == Init /\ [][ScanNext]_vars

\* C18: no two executions of the scanner overlap, the scan started at startup included, and
\* a POST /scan that arrives while a scan is running is answered 409.
C18_ScansNeverOverlap ==
  /\ Cardinality(scanRuns) <= 1
  /\ lastOp.op = "POST /scan" /\ lastOp.arg.running > 0 => lastOp.result.status = 409

\* C19: a cleanup that completes without error deletes every video/image row whose file's
\* stat failed with an error other than EACCES/EPERM and no other row; a cleanup that fails
\* leaves the catalog the scan loop produced.
C19_CleanupDeletesExactlyMissing ==
  [][/\ lastOp'.op = "scan:cleanup" /\ lastOp'.accepted =>
          /\ mediaItems' \subseteq mediaItems
          /\ \A row \in mediaItems :
               row \in mediaItems' <=> StatOf(row.rel_path) \in {"ok", "EACCES", "EPERM"}
     /\ lastOp'.op = "scan:cleanup" /\ ~lastOp'.accepted => mediaItems' = mediaItems]_vars

\* C25: after a scan has upserted the row of a file, the row's is_vr is what that scan found:
\* the probe flagged the file, or (only when it did not) the path heuristic matched; a file
\* that no longer matches is stored with is_vr false.
C25_IsVrJustifiedByLastScan ==
  [][lastOp'.op = "scan:walk" /\ lastOp'.accepted =>
       \A r \in mediaItems' :
         r.rel_path \in WalkedFiles => r.is_vr = isVrOf(r.rel_path)]_vars

\* C26: the catalog has at most one row per rel_path, and a scan that finds the file of an
\* existing row leaves the row's id unchanged.
C26_OneRowPerPathStableId ==
  [][/\ \A r1, r2 \in mediaItems' : r1.rel_path = r2.rel_path => r1 = r2
     /\ lastOp'.op = "scan:walk" =>
          \A r \in mediaItems : \A r2 \in mediaItems' : r2.rel_path = r.rel_path => r2.id = r.id]_vars

\* a rescan has upserted the row that an earlier scan inserted
C26_Witness ==
  /\ lastOp.op = "scan:walk" /\ lastOp.accepted
  /\ \E r \in mediaItems : r.id # newId(lastOp.arg, r.rel_path) /\ r.rel_path \in WalkedFiles


(***************************************************************************)
(* The DeoVR heartbeat inferrer of GET /media/:id/stream: in-flight        *)
(* counting, the pause debounce, the tick, the idle check and the forget   *)
(* sweep.                                                                  *)
(***************************************************************************)
\* `vr:deovr:${ipAddress}` of the one player of the model
DeovrClient == "vr:deovr:10.0.0.7"

DeovrKey(sessionId, fromClientId) == sessionId \o "|" \o fromClientId

\* x || d on the integers of the heartbeat
IntOr(x, d) == IF x = 0 THEN d ELSE x

IntMax(a, b) == IF a >= b THEN a ELSE b

created(sessionId, fromClientId, id, tick, idle) ==
  [sessionId |-> sessionId, fromClientId |-> fromClientId, mediaId |-> id,
   startedAtMs |-> now, lastSeenAtMs |-> now, lastPublishAtMs |-> 0, lastTimeMs |-> 0,
   paused |-> FALSE, inFlight |-> 0, pauseTimer |-> 0, lastDataAtMs |-> now,
   tickTimer |-> tick, idleTimer |-> idle]

\* the object a heartbeat callback passes to opts.onVrStream
VrInfo(state, st, by, paused) ==
  [st |-> st, by |-> by, at |-> now, sessionId |-> state.sessionId, mediaId |-> state.mediaId,
   fromClientId |-> state.fromClientId, timeMs |-> IntMax(0, IntOr(state.lastTimeMs, 0)),
   paused |-> paused]

\* onVrStream of the server: the update it hands to publishExternalSyncUpdate
onVrStream(info) ==
  [sessionId |-> info.sessionId, mediaId |-> info.mediaId, fromClientId |-> info.fromClientId,
   timeMs |-> Num(info.timeMs), paused |-> info.paused, fps |-> Num(DEOVR_FPS),
   frame |-> MathMax(0, FrameAt(Num(info.timeMs)))]

\* what every step of the inferrer does with its publishes (at most one); h is the history
DeovrPublish(infos, h) ==
  /\ vrOut' = infos
  /\ vrHist' = IF \E p \in infos : ~p.paused
               THEN [h EXCEPT !.lastPlaying =
                       LET p == CHOOSE q \in infos : ~q.paused
                       IN MapSet(@, DeovrKey(p.sessionId, p.fromClientId),
                                 [mediaId |-> p.mediaId, at |-> p.at])]
               ELSE h
  /\ UNCHANGED <<sessionPlayAt, sessionPlayAtLocalMs, sessionCapturedAtLocalMs, clientMetadata,
                 clientUiStatus, clientsById, sockets, mediaFilenameById, scanVars, writeFails,
                 thumbVars>>
  /\ IF infos = {}
     THEN /\ sent' = {}
          /\ UNCHANGED <<syncStateBySession, pendingPublish, hist>>
     ELSE \E update \in {onVrStream(p) : p \in infos} : publishExternalSyncUpdate(update)

\* the state the request handler leaves behind
StateAtRequest(s0, shouldPublish) ==
  LET startedAtMs == IF s0.paused THEN now - IntOr(s0.lastTimeMs, 0) ELSE s0.startedAtMs
  IN [s0 EXCEPT !.pauseTimer = 0,
                !.inFlight = IntMax(0, IntOr(@, 0) + 1),
                !.paused = FALSE,
                !.startedAtMs = startedAtMs,
                !.lastSeenAtMs = now,
                !.lastTimeMs = IntMax(0, now - IntOr(startedAtMs, now)),
                !.lastPublishAtMs = IF shouldPublish THEN now ELSE @]

\* GET /media/:id/stream of a DeoVR player: the heartbeat part of the handler
DeovrStreamRequest(req, sessionId, id) ==
  \E key \in {DeovrKey(sessionId, DeovrClient)} :
  \E isNew \in {\/ ~MapHas(deovrPlaybackByKey, key)
                \/ deovrStates[MapGet(deovrPlaybackByKey, key)].mediaId # id} :
  \E st \in {IF isNew THEN Len(deovrStates) + 1 ELSE MapGet(deovrPlaybackByKey, key)} :
  \E s0 \in {IF isNew
             THEN created(sessionId, DeovrClient, id, Len(timers) + 1, Len(timers) + 2)
             ELSE deovrStates[st]} :
  \E shouldPublish \in {\/ now - IntOr(s0.lastPublishAtMs, 0) >= DEOVR_PUBLISH_MIN_MS
                        \/ ~MapHas(lastVrStreamMediaByClient, key)
                        \/ MapGet(lastVrStreamMediaByClient, key) # id} :
  \E s1 \in {StateAtRequest(s0, shouldPublish)} :
  \E armed \in {IF isNew
                THEN timers \o <<[kind |-> "tick", st |-> st, due |-> now + DEOVR_TICK_MS,
                                  armed |-> TRUE],
                                 [kind |-> "idle", st |-> st, due |-> now + IDLE_CHECK_MS,
                                  armed |-> TRUE]>>
                ELSE timers} :
    /\ ops' = ops + 1
    /\ UNCHANGED now
    /\ deovrStates' = IF isNew THEN Append(deovrStates, s1) ELSE [deovrStates EXCEPT ![st] = s1]
    /\ deovrPlaybackByKey' = IF isNew THEN MapSet(deovrPlaybackByKey, key, st)
                             ELSE deovrPlaybackByKey
    /\ timers' = IF s0.pauseTimer # 0 THEN [armed EXCEPT ![s0.pauseTimer].armed = FALSE]
                 ELSE armed
    /\ streamResponses' = Append(streamResponses,
                                 [st |-> st, finished |-> FALSE, closed |-> FALSE])
    /\ lastVrStreamMediaByClient' = IF shouldPublish
                                    THEN MapSet(lastVrStreamMediaByClient, key, id)
                                    ELSE lastVrStreamMediaByClient
    /\ lastOp' = [Op("GET /media/:id/stream (DeoVR)") EXCEPT !.sessionId = sessionId,
                    !.clientId = DeovrClient, !.accepted = shouldPublish,
                    !.arg = [mediaId |-> id, st |-> st, isNew |-> isNew, req |-> req]]
    /\ DeovrPublish(IF shouldPublish THEN {VrInfo(s1, st, "request", FALSE)} ELSE {},
                    [vrHist EXCEPT !.lastRequested = MapSet(@, key, id),
                                   !.endedAt = Append(@, 0),
                                   !.openedAt = Append(@, now)])

\* release, the listener of both 'close' and 'finish' of a response of state st
release(r, name, flags) ==
  \E st \in {streamResponses[r].st} :
  \E inFlight \in {IntMax(0, IntOr(deovrStates[st].inFlight, 0) - 1)} :
    /\ ops' = ops + 1
    /\ UNCHANGED <<now, deovrPlaybackByKey, lastVrStreamMediaByClient>>
    /\ streamResponses' = [streamResponses EXCEPT ![r] = flags]
    /\ IF inFlight # 0
       THEN /\ deovrStates' = [deovrStates EXCEPT ![st].inFlight = inFlight]
            /\ UNCHANGED timers
       ELSE /\ deovrStates' = [deovrStates EXCEPT ![st].inFlight = inFlight,
                                                  ![st].pauseTimer = Len(timers) + 1]
            /\ timers' = Append(timers, [kind |-> "pause", st |-> st,
                                         due |-> now + DEOVR_INSTANT_PAUSE_DEBOUNCE_MS,
                                         armed |-> TRUE])
    /\ lastOp' = [Op(name) EXCEPT !.accepted = (inFlight = 0), !.arg = [response |-> r, st |-> st]]
    /\ DeovrPublish({}, IF vrHist.endedAt[r] = 0
                        THEN [vrHist EXCEPT !.endedAt[r] = now] ELSE vrHist)

\* the response has been written out: 'finish' is emitted ('close' follows later)
ResponseFinish(r) ==
  /\ r \in 1 .. Len(streamResponses)
  /\ ~streamResponses[r].finished
  /\ ~streamResponses[r].closed
  /\ release(r, "response:finish", [streamResponses[r] EXCEPT !.finished = TRUE])

\* the connection of the response is gone: 'close' is emitted, after 'finish' or on an abort
ResponseClose(r) ==
  /\ r \in 1 .. Len(streamResponses)
  /\ ~streamResponses[r].closed
  /\ release(r, "response:close", [streamResponses[r] EXCEPT !.closed = TRUE])

\* stream.on('data'): bytes of the file are pushed to an open response
StreamData(r) ==
  /\ r \in 1 .. Len(streamResponses)
  /\ ~streamResponses[r].finished
  /\ ~streamResponses[r].closed
  /\ \E st \in {streamResponses[r].st} :
       /\ ops' = ops + 1
       /\ UNCHANGED <<now, deovrPlaybackByKey, lastVrStreamMediaByClient, streamResponses,
                      timers>>
       /\ deovrStates' =
            [deovrStates EXCEPT ![st] =
               [@ EXCEPT !.lastDataAtMs = now,
                         !.paused = FALSE,
                         !.startedAtMs = IF deovrStates[st].paused
                                         THEN now - IntOr(deovrStates[st].lastTimeMs, 0)
                                         ELSE @]]
       /\ lastOp' = [Op("stream:data") EXCEPT !.accepted = TRUE,
                                              !.arg = [response |-> r, st |-> st]]
       /\ DeovrPublish({}, vrHist)

\* a timer whose time has come
Due(t, kind) ==
  /\ t \in 1 .. Len(timers)
  /\ timers[t].kind = kind
  /\ timers[t].armed
  /\ timers[t].due <= now

Rearm(ts, t, period) == [ts EXCEPT ![t].due = now + period]

\* the callback of state.tickTimer
TickTimer(t) ==
  /\ Due(t, "tick")
  /\ \E st \in {timers[t].st} :
     \E state \in {deovrStates[st]} :
     \E playing \in {~state.paused /\ IntOr(state.inFlight, 0) > 0} :
     \E lastTimeMs \in {IF playing THEN IntMax(0, now - IntOr(state.startedAtMs, now))
                        ELSE state.lastTimeMs} :
     \E publish \in {playing /\ now - IntOr(state.lastPublishAtMs, 0) >= DEOVR_PUBLISH_MIN_MS} :
     \E s1 \in {[state EXCEPT !.lastTimeMs = lastTimeMs,
                              !.lastPublishAtMs = IF publish THEN now ELSE @]} :
       /\ UNCHANGED <<now, ops, deovrPlaybackByKey, lastVrStreamMediaByClient, streamResponses>>
       /\ deovrStates' = [deovrStates EXCEPT ![st] = s1]
       /\ timers' = Rearm(timers, t, DEOVR_TICK_MS)
       /\ lastOp' = [Op("deovr:tick") EXCEPT !.accepted = publish, !.arg = [timer |-> t, st |-> st]]
       /\ DeovrPublish(IF publish THEN {VrInfo(s1, st, "tick", FALSE)} ELSE {}, vrHist)

\* the callback of state.idleTimer
IdleTimer(t) ==
  /\ Due(t, "idle")
  /\ \E st \in {timers[t].st} :
     \E state \in {deovrStates[st]} :
     \E pause \in {/\ ~state.paused
                   /\ IntOr(state.inFlight, 0) > 0
                   /\ state.lastDataAtMs # 0
                   /\ now - state.lastDataAtMs >= DEOVR_IDLE_PAUSE_MS} :
     \E s1 \in {[state EXCEPT !.paused = IF pause THEN TRUE ELSE @]} :
       /\ UNCHANGED <<now, ops, deovrPlaybackByKey, lastVrStreamMediaByClient, streamResponses>>
       /\ deovrStates' = [deovrStates EXCEPT ![st] = s1]
       /\ timers' = Rearm(timers, t, IDLE_CHECK_MS)
       /\ lastOp' = [Op("deovr:idle") EXCEPT !.accepted = pause, !.arg = [timer |-> t, st |-> st]]
       /\ DeovrPublish(IF pause THEN {VrInfo(s1, st, "idle", TRUE)} ELSE {}, vrHist)

\* the callback of the pause debounce armed by release
PauseTimer(t) ==
  /\ Due(t, "pause")
  /\ \E st \in {timers[t].st} :
     \E state \in {deovrStates[st]} :
     \E pause \in {IntOr(state.inFlight, 0) = 0 /\ ~state.paused} :
     \E s1 \in {[state EXCEPT !.paused = IF pause THEN TRUE ELSE @]} :
       /\ UNCHANGED <<now, ops, deovrPlaybackByKey, lastVrStreamMediaByClient, streamResponses>>
       /\ deovrStates' = [deovrStates EXCEPT ![st] = s1]
       /\ timers' = [timers EXCEPT ![t].armed = FALSE]
       /\ lastOp' = [Op("deovr:pause") EXCEPT !.accepted = pause, !.arg = [timer |-> t, st |-> st]]
       /\ DeovrPublish(IF pause THEN {VrInfo(s1, st, "pause", TRUE)} ELSE {}, vrHist)

\* the states the forget sweep deletes from deovrPlaybackByKey
Forgotten ==
  {e \in deovrPlaybackByKey :
     now - IntOr(deovrStates[e.v].lastSeenAtMs, 0) > DEOVR_FORGET_MS}

\* the forget sweep: setInterval(..., 5000)
ForgetSweep(t) ==
  /\ Due(t, "forget")
  /\ \E gone \in {Forgotten} :
     \E cleared \in {UNION {{deovrStates[e.v].pauseTimer, deovrStates[e.v].tickTimer,
                             deovrStates[e.v].idleTimer} : e \in gone} \ {0}} :
       /\ UNCHANGED <<now, ops, deovrStates, lastVrStreamMediaByClient, streamResponses>>
       /\ deovrPlaybackByKey' = deovrPlaybackByKey \ gone
       /\ timers' = [i \in 1 .. Len(timers) |->
                       IF i = t THEN [timers[i] EXCEPT !.due = now + FORGET_SWEEP_MS]
                       ELSE IF i \in cleared THEN [timers[i] EXCEPT !.armed = FALSE]
                       ELSE timers[i]]
       /\ lastOp' = [Op("deovr:forget") EXCEPT !.accepted = (gone # {}),
                                               !.arg = [evicted |-> {e.v : e \in gone}]]
       /\ DeovrPublish({}, vrHist)

NextDue == SetMin({timers[t].due : t \in {i \in 1 .. Len(timers) : timers[i].armed}})

\* time passes until the next timer is due; a timer that is due runs before time moves on
Advance ==
  /\ NextDue > now
  /\ now' = NextDue
  /\ UNCHANGED <<ops, deovrStates, deovrPlaybackByKey, lastVrStreamMediaByClient,
                 streamResponses, timers>>
  /\ lastOp' = Op("advance")
  /\ DeovrPublish({}, vrHist)

\* the headers and the query of a stream request of the DeoVR player
DeovrPlayerRequest == [ua |-> "DeoVR/13 (Quest)", mvFrom |-> Undef]

\* the stream requests of a player, and what happens to their responses: at most maxEvents
\* of them in all
DeovrRequests(maxEvents, ids) ==
  ops < maxEvents /\ \E id \in ids : DeovrStreamRequest(DeovrPlayerRequest, "default", id)

DeovrResponses(maxEvents) ==
  \/ ops < maxEvents /\ \E r \in 1 .. Len(streamResponses) : ResponseFinish(r)
  \/ ops < maxEvents /\ \E r \in 1 .. Len(streamResponses) : ResponseClose(r)
  \/ ops < maxEvents /\ \E r \in 1 .. Len(streamResponses) : StreamData(r)

\* the timers of the states, and the lookups of the publishes
DeovrTimers ==
  \/ \E t \in 1 .. Len(timers) : TickTimer(t)
  \/ \E t \in 1 .. Len(timers) : IdleTimer(t)
  \/ \E t \in 1 .. Len(timers) : PauseTimer(t)
  \/ \E i \in 1 .. Len(pendingPublish) : PublishResume(i)

MaxStreamEvents == 4
MaxClockMs == 1001
StreamMediaIds == {"m1", "m2"}

\* the first second of a player: requests, media switches, closes, and the timers they arm
HeartbeatNext ==
  \/ DeovrRequests(MaxStreamEvents, StreamMediaIds)
  \/ DeovrResponses(MaxStreamEvents)
  \/ DeovrTimers
  \/ NextDue <= MaxClockMs /\ Advance

HeartbeatSpec == Init /\ [][HeartbeatNext]_vars

MaxLongEvents == 2
MaxLongClockMs == 65001
MaxLongStartMs == 1

\* one media, asked for as soon as the server is up and followed for more than
\* DEOVR_FORGET_MS, the forget sweep included
LongStreamNext ==
  \/ now <= MaxLongStartMs /\ DeovrRequests(MaxLongEvents, {"m1"})
  \/ DeovrResponses(MaxLongEvents)
  \/ DeovrTimers
  \/ \E t \in 1 .. Len(timers) : ForgetSweep(t)
  \/ NextDue <= MaxLongClockMs /\ Advance

LongStreamSpec == Init /\ [][LongStreamNext]_vars

ResponseOpen(r) == ~streamResponses[r].finished /\ ~streamResponses[r].closed

OpenResponsesOf(st) ==
  {r \in 1 .. Len(streamResponses) : streamResponses[r].st = st /\ ResponseOpen(r)}

\* C12: for every DeoVR state, inFlight is the number of responses dispatched to it that have
\* not ended, however a response ends; so release arms the pause debounce only when no
\* request of the state is open.
C12_InFlightCountsOpenResponses ==
  /\ \A st \in 1 .. Len(deovrStates) :
       deovrStates[st].inFlight = Cardinality(OpenResponsesOf(st))
  /\ lastOp.op \in {"response:finish", "response:close"} /\ lastOp.accepted =>
       OpenResponsesOf(lastOp.arg.st) = {}

C13_LastEndOf(st) ==
  SetMax({vrHist.endedAt[r] : r \in {q \in 1 .. Len(streamResponses) : streamResponses[q].st = st}})

\* C13: the pause debounce publishes paused=true for a state only when every request of the
\* state has ended, the last of them at least DEOVR_INSTANT_PAUSE_DEBOUNCE_MS ago, and no
\* stream request of the state has arrived since.
C13_PauseDebounceWaits ==
  \A p \in vrOut :
    p.by = "pause" =>
      /\ OpenResponsesOf(p.st) = {}
      /\ p.at - C13_LastEndOf(p.st) >= DEOVR_INSTANT_PAUSE_DEBOUNCE_MS
      /\ deovrStates[p.st].lastSeenAtMs <= C13_LastEndOf(p.st)

\* C14: two consecutive paused=false publishes of the inferrer for one (sessionId, client)
\* that carry the same mediaId are at least DEOVR_PUBLISH_MIN_MS apart, whether a stream
\* request or a tick triggers them.
C14_PlayingPublishesSpaced ==
  [][\A p \in vrOut' :
       \A last \in {e \in vrHist.lastPlaying : e.k = DeovrKey(p.sessionId, p.fromClientId)} :
         /\ lastOp'.op \in {"GET /media/:id/stream (DeoVR)", "deovr:tick"}
         /\ ~p.paused
         /\ last.v.mediaId = p.mediaId
         => p.at - last.v.at >= DEOVR_PUBLISH_MIN_MS]_vars

\* C15: after a stream request for another media, the state of the previous media is
\* destroyed: none of its timers publishes, and every heartbeat publish carries the media
\* of the latest stream request of its (sessionId, client).
C15_SwitchDestroysOldState ==
  \A p \in vrOut :
    \A cur \in {e \in deovrPlaybackByKey : e.k = DeovrKey(p.sessionId, p.fromClientId)} :
      /\ cur.v = p.st
      /\ p.mediaId = MapGet(vrHist.lastRequested, cur.k)

\* C16: the forget sweep evicts a state only after DEOVR_FORGET_MS without activity, and
\* never a state with an open request on which bytes are being delivered (bytes within the
\* last DEOVR_IDLE_PAUSE_MS, the delay after which the inferrer itself takes a stream as idle).
C16_EvictedOnlyWhenInactive ==
  [][lastOp'.op = "deovr:forget" =>
       \A st \in lastOp'.arg.evicted :
         /\ now' - deovrStates[st].lastSeenAtMs > DEOVR_FORGET_MS
         /\ OpenResponsesOf(st) # {} =>
              now' - deovrStates[st].lastDataAtMs >= DEOVR_IDLE_PAUSE_MS]_vars


\* C21: a WebSocket message that fails validation (a sync:hello, client:status or sync:update
\* without a usable clientId, a sync:update whose mediaId is empty or absent) is dropped: it
\* changes no session state, ephemeral, presence or socket registration, and nothing is sent.
C21_InvalidMessageDropped ==
  [][lastOp'.op \in {"sync:hello", "client:status", "sync:update"} /\ ~lastOp'.accepted =>
       /\ sent' = {}
       /\ UNCHANGED <<syncStateBySession, sessionPlayAt, sessionPlayAtLocalMs,
                      sessionCapturedAtLocalMs, clientMetadata, clientUiStatus, clientsById,
                      sockets>>]_vars


(***************************************************************************)
(* Fan-out when the write to a socket fails.                               *)
(***************************************************************************)
\* the write to an open socket starts to fail: its send loses the message, or throws
SocketWriteBreaks(w, throws) ==
  /\ sockets[w].readyState = 1
  /\ \A f \in writeFails : f.ws # w
  /\ ops < MaxOps
  /\ ops' = ops + 1
  /\ writeFails' = writeFails \cup {[ws |-> w, throws |-> throws]}
  /\ sent' = {}
  /\ lastOp' = [Op("write:fails") EXCEPT !.ws = w]
  /\ UNCHANGED <<now, syncStateBySession, sessionPlayAt, sessionPlayAtLocalMs,
                 sessionCapturedAtLocalMs, clientMetadata, clientUiStatus, clientsById, sockets,
                 mediaFilenameById, pendingPublish, hist, scanVars, deovrVars, thumbVars>>

FanoutHellos == {Hello("A", Undef), Hello("B", Undef)}
FanoutStatuses == {Status("player", Null)}
FanoutUpdates == {[BaseUpdate EXCEPT !.clientId = "B"], [BaseUpdate EXCEPT !.clientId = "B", !.toClientId = "A"]}
FanoutPuts == {Put(Undef, "A", "m1", TRUE)}
FanoutPublishes == {VrHint("default")}

FanoutNext ==
  \/ NextOver(FanoutHellos, FanoutStatuses, FanoutUpdates, FanoutPuts, FanoutPublishes)
  \/ \E w \in Sockets, throws \in BOOLEAN : SocketWriteBreaks(w, throws)

FanoutSpec == Init /\ [][FanoutNext]_vars

\* C22: when the write to one socket fails during a broadcast or a unicast, only that socket
\* is affected: every other open socket of the fan-out still receives the message.
C22_WriteFailureIsolated ==
  \A m \in sent :
    /\ m.kind = "broadcast" => OpenSockets \ {f.ws : f \in writeFails} \subseteq m.to
    /\ m.kind = "unicast" /\ lastOp.op = "sync:update" =>
         C4_OpenSocketsOf(lastOp.toClientId) \ {f.ws : f \in writeFails} \subseteq m.to


(***************************************************************************)
(* The thumbnail cache: generateThumbnail and its fail marker.             *)
(***************************************************************************)
\* 15 * 60 * 1000
THUMB_FAIL_RETRY_MS == 900000

\* the marker <hash>.fail.json holds a ts younger than 15 minutes
failedRecently(k) ==
  thumbCache[k].failTs > 0 /\ now - thumbCache[k].failTs < THUMB_FAIL_RETRY_MS

\* The try/catch around the marker check.  The Error of a recent marker is thrown inside the
\* try, so the catch of the same statement takes it, and the body of that catch does nothing:
\* nothing leaves the statement.
markerCheck(k) == IF failedRecently(k) THEN "caught" ELSE "passed"

ThumbStep ==
  /\ sent' = {}
  /\ UNCHANGED <<syncStateBySession, sessionPlayAt, sessionPlayAtLocalMs,
                 sessionCapturedAtLocalMs, clientMetadata, clientUiStatus, clientsById, sockets,
                 mediaFilenameById, pendingPublish, hist, ops, scanVars, deovrVars, writeFails>>

\* generateThumbnail for key k; ffmpeg is whether one of the three attempts exits with 0, and
\* markerWritten whether fs.writeFile of the fail marker succeeds
generateThumbnail(k, ffmpeg, markerWritten) ==
  /\ ThumbStep
  /\ UNCHANGED now
  /\ IF thumbCache[k].out
     THEN /\ UNCHANGED thumbCache
          /\ lastOp' = [Op("generateThumbnail") EXCEPT !.accepted = TRUE,
                          !.arg = [key |-> k, markerAgeMs |-> -1],
                          !.result = [ranFfmpeg |-> FALSE, rejected |-> FALSE]]
     ELSE IF markerCheck(k) = "thrown"
     THEN /\ UNCHANGED thumbCache
          /\ lastOp' = [Op("generateThumbnail") EXCEPT
                          !.arg = [key |-> k, markerAgeMs |-> now - thumbCache[k].failTs],
                          !.result = [ranFfmpeg |-> FALSE, rejected |-> TRUE]]
     ELSE /\ thumbCache' =
               [thumbCache EXCEPT ![k] =
                  IF ffmpeg THEN [@ EXCEPT !.out = TRUE]
                  ELSE IF markerWritten THEN [@ EXCEPT !.failTs = now] ELSE @]
          /\ lastOp' = [Op("generateThumbnail") EXCEPT !.accepted = ffmpeg,
                          !.arg = [key |-> k,
                                   markerAgeMs |-> IF thumbCache[k].failTs > 0
                                                   THEN now - thumbCache[k].failTs ELSE -1],
                          !.result = [ranFfmpeg |-> TRUE, rejected |-> ~ffmpeg]]

\* the cache directory is removed and created again
ThumbCacheCleared ==
  /\ ThumbStep
  /\ UNCHANGED now
  /\ thumbCache # [k \in ThumbKeys |-> NoThumb]
  /\ thumbCache' = [k \in ThumbKeys |-> NoThumb]
  /\ lastOp' = Op("thumbs:clear")

MaxThumbClockMs == 1800001
ThumbWaits == {THUMB_FAIL_RETRY_MS - 1, THUMB_FAIL_RETRY_MS}

\* time passes between two requests
ThumbWait(d) ==
  /\ ThumbStep
  /\ now + d <= MaxThumbClockMs
  /\ now' = now + d
  /\ UNCHANGED thumbCache
  /\ lastOp' = Op("thumbs:wait")

ThumbNext ==
  \/ \E k \in ThumbKeys, ffmpeg \in BOOLEAN, markerWritten \in BOOLEAN :
       generateThumbnail(k, ffmpeg, markerWritten)
  \/ ThumbCacheCleared
  \/ \E d \in ThumbWaits : ThumbWait(d)

ThumbSpec == Init /\ [][ThumbNext]_vars

\* C24: a generateThumbnail call for a key whose fail marker is younger than 15 minutes (and
\* whose thumbnail is not cached) fails without running ffmpeg.
C24_RecentFailureSkipsFfmpeg ==
  [][\A k \in ThumbKeys :
       /\ lastOp'.op = "generateThumbnail" /\ lastOp'.arg.key = k
       /\ ~thumbCache[k].out /\ failedRecently(k)
       => ~lastOp'.result.ranFfmpeg /\ lastOp'.result.rejected]_vars


(***************************************************************************)
(* The HereSphere endpoints and the headers of their responses.            *)
(***************************************************************************)
HereSphereJsonVersion == [name |-> "HereSphere-JSON-Version", value |-> "1"]

listVrVideos == {r \in mediaItems : r.media_type = "video" /\ r.is_vr}

getVideoById(id) == {r \in mediaItems : r.id = id /\ r.media_type = "video"}

\* an endpoint that answers from the catalog alone: /heresphere/auth, /heresphere/scan and
\* the library /heresphere
HereSphereAnswer(name, result) ==
  /\ UNCHANGED <<scanVars, deovrVars, writeFails, thumbVars>>
  /\ ops < MaxOps
  /\ ops' = ops + 1
  /\ sent' = {}
  /\ lastOp' = [Op(name) EXCEPT !.accepted = (result.status = 200), !.result = result]
  /\ UNCHANGED <<now, syncStateBySession, sessionPlayAt, sessionPlayAtLocalMs,
                 sessionCapturedAtLocalMs, clientMetadata, clientUiStatus, clientsById, sockets,
                 mediaFilenameById, pendingPublish, hist>>

HttpHereSphereAuth ==
  HereSphereAnswer("ALL /heresphere/auth",
                   [status |-> 200, headers |-> {HereSphereJsonVersion}, body |-> {"local"}])

HttpHereSphereScan ==
  HereSphereAnswer("ALL /heresphere/scan",
                   [status |-> 200, headers |-> {HereSphereJsonVersion},
                    body |-> {v.id : v \in listVrVideos}])

HttpHereSphereLibrary ==
  HereSphereAnswer("ALL /heresphere",
                   [status |-> 200, headers |-> {HereSphereJsonVersion},
                    body |-> {v.id : v \in listVrVideos}])

\* ALL /heresphere/video/:id, up to the suspension of the publish; the answer follows it
HttpHereSphereVideo(query, idParam) ==
  \E id \in {TrimOrEmpty(idParam)} :
    IF getVideoById(id) = {}
    THEN HereSphereAnswer("ALL /heresphere/video/:id",
                          [status |-> 404, headers |-> {}, body |-> {"Not found"}])
    ELSE \E update \in {[sessionId |-> TrimOrDefault(query.sessionId, "default"),
                         mediaId |-> id, fromClientId |-> "vr:heresphere", timeMs |-> Num(0),
                         paused |-> FALSE, fps |-> Num(30), frame |-> Num(0)]} :
           /\ UNCHANGED <<scanVars, deovrVars, writeFails, thumbVars>>
           /\ ops < MaxOps
           /\ ops' = ops + 1
           /\ UNCHANGED <<now, sessionPlayAt, sessionPlayAtLocalMs, sessionCapturedAtLocalMs,
                          clientMetadata, clientUiStatus, clientsById, sockets,
                          mediaFilenameById>>
           /\ lastOp' = [Op("ALL /heresphere/video/:id") EXCEPT
                           !.sessionId = update.sessionId, !.clientId = update.fromClientId,
                           !.accepted = TRUE,
                           !.result = [status |-> 200, headers |-> {HereSphereJsonVersion},
                                       body |-> {id}]]
           /\ publishExternalSyncUpdate(update)

HereSphereVideoIds == {"0:a_180_sbs.mp4", "0:a.mp4", "0:b.jpg", "m7"}
HereSphereEvents ==
  {HsEvent(HsUrl(<<"heresphere", "video", "m7">>), Num(5000), Num(1)), HsEvent(HsBlank, Num(0), Num(0))}

HereSphereNext ==
  \/ \E w \in Sockets : Connect(w)
  \/ \E run \in scanRuns : ScanWalk(run)
  \/ HttpHereSphereAuth
  \/ HttpHereSphereScan
  \/ HttpHereSphereLibrary
  \/ \E s \in {Undef, " s1 "}, id \in HereSphereVideoIds : HttpHereSphereVideo(HsQuery(s), id)
  \/ \E s \in {Undef, " s1 "}, body \in HereSphereEvents : HttpHereSphereEvent(HsQuery(s), body)
  \/ \E i \in 1 .. MaxPending : PublishResume(i)

HereSphereSpec == Init /\ [][HereSphereNext]_vars

\* C23: every response of a HereSphere endpoint (the library, video/:id with its not-found
\* answer, event, auth, scan) carries the header HereSphere-JSON-Version: 1.
C23_EveryResponseCarriesVersion ==
  lastOp.op \in {"ALL /heresphere", "ALL /heresphere/video/:id", "POST /heresphere/event",
                 "ALL /heresphere/auth", "ALL /heresphere/scan"}
    => HereSphereJsonVersion \in lastOp.result.headers


(***************************************************************************)
(* stablePositiveInt: the numeric id the DeoVR document derives from the   *)
(* item id.  A 32-bit word is kept as its two 16-bit halves.               *)
(***************************************************************************)
Word(hi, lo) == [hi |-> hi, lo |-> lo]

\* a ^ b on non-negative integers
RECURSIVE BitXor(_, _)
BitXor(a, b) ==
  IF a = 0 THEN b
  ELSE IF b = 0 THEN a
  ELSE 2 * BitXor(a \div 2, b \div 2) + ((a + b) % 2)

\* h ^= input.charCodeAt(i): a code unit has 16 bits
xorCode(h, code) == Word(h.hi, BitXor(h.lo, code))

\* Math.imul(h, m): the low 32 bits of the product
imul(h, m) ==
  LET low == h.lo * m.lo
  IN Word((h.hi * m.lo + h.lo * m.hi + low \div 65536) % 65536, low % 65536)

\* h >>> 1 and, as the variant, h >> 1 on the int32 that Math.imul returns
shiftRightSigned(h) == (IF h.hi >= 32768 THEN h.hi - 65536 ELSE h.hi) * 32768 + h.lo \div 2

shiftRight(h) == h.hi * 32768 + h.lo \div 2

\* 0x811c9dc5 and 0x01000193
FnvOffsetBasis == Word(33052, 40389)
FnvPrime == Word(256, 403)

RECURSIVE fnv1a(_, _)
fnv1a(h, input) ==
  IF input = <<>> THEN h
  ELSE fnv1a(imul(xorCode(h, Head(input)), FnvPrime), Tail(input))

stablePositiveInt(input) ==
  LET v == shiftRight(fnv1a(FnvOffsetBasis, input))
  IN IF v = 0 THEN 1 ELSE v

MaxIdLen == 3
\* the code units of - 0 a e-acute and 0xffff
IdCodes == {45, 48, 97, 233, 65535}

RECURSIVE IdsOfLength(_)
IdsOfLength(n) ==
  IF n = 0 THEN {<<>>}
  ELSE {Append(id, c) : id \in IdsOfLength(n - 1), c \in IdCodes}

\* the DeoVR document of an item is built: its numeric id
DeovrNumericId(id) ==
  /\ ThumbStep
  /\ UNCHANGED <<now, thumbVars>>
  /\ lastOp' = [Op("stablePositiveInt") EXCEPT !.accepted = TRUE,
                  !.arg = [input |-> id],
                  !.result = [value |-> stablePositiveInt(id),
                              hash |-> fnv1a(FnvOffsetBasis, id)]]

NumericIdNext == \E n \in 0 .. MaxIdLen : \E id \in IdsOfLength(n) : DeovrNumericId(id)

NumericIdSpec == Init /\ [][NumericIdNext]_vars

\* C27: stablePositiveInt is a function of the id alone and returns an integer in
\* 1 .. 2^31-1 for every id, the empty string included; the multiply of each FNV-1a step
\* wraps modulo 2^32 (the hashes of "" and "a" are 0x811c9dc5 and 0xe40c292c).
C27_StablePositiveInt ==
  lastOp.op = "stablePositiveInt" =>
    /\ lastOp.result.value = stablePositiveInt(lastOp.arg.input)
    /\ lastOp.result.value >= 1
    /\ lastOp.result.value <= 2147483647
    /\ lastOp.arg.input = <<>> => lastOp.result.value = 1083068130
    /\ lastOp.arg.input = <<97>> => lastOp.result.value = 1913001110

\* the id has three code units and its hash has the top bit set
C27_Witness ==
  /\ lastOp.op = "stablePositiveInt"
  /\ Len(lastOp.arg.input) = MaxIdLen
  /\ lastOp.result.hash.hi >= 32768


(***************************************************************************)
(* Presence: the registry of sockets per client.                           *)
(***************************************************************************)
\* the sockets on which 'close' has not been emitted
C28_Live == {w \in Sockets : sockets[w].readyState \in {1, 2}}

\* C28: each socket is in at most one client's set, the one of its current clientId, and no
\* client has an empty set; after a hello that re-keys a socket from A to B the socket is
\* registered under B only, so that a targeted update is sent to exactly the open sockets
\* whose current clientId is the target.
C28_RegisteredUnderCurrentClientId ==
  /\ \A e \in clientsById :
       /\ e.v # {}
       /\ \A w \in e.v : w \in C28_Live /\ sockets[w].clientId = e.k
  /\ \A w \in C28_Live :
       sockets[w].clientId # Undef =>
         MapHas(clientsById, sockets[w].clientId) /\ w \in MapGet(clientsById, sockets[w].clientId)
  /\ lastOp.op = "sync:hello" /\ lastOp.accepted /\ lastOp.arg.prior \notin {Undef, lastOp.clientId} =>
       /\ MapHas(clientsById, lastOp.arg.prior) => lastOp.ws \notin MapGet(clientsById, lastOp.arg.prior)
       /\ lastOp.ws \in MapGet(clientsById, lastOp.clientId)
  /\ \A m \in sent :
       m.kind = "unicast" /\ lastOp.op = "sync:update" =>
         m.to = {w \in OpenSockets : sockets[w].clientId = lastOp.toClientId}

\* a hello has re-keyed a socket whose old client keeps another socket
C28_Witness ==
  /\ lastOp.op = "sync:hello" /\ lastOp.accepted
  /\ lastOp.arg.prior \notin {Undef, lastOp.clientId}
  /\ MapHas(clientsById, lastOp.arg.prior)


\* the sockets whose readyState is OPEN
C29_Open == {w \in Sockets : sockets[w].readyState = 1}

\* C29: a sync:hello with a non-empty clientId registers the presence and is answered by one
\* broadcast that every open socket receives (the sender and the sockets of other sessions
\* included), whose clients list has the new clientId and whose state is the state of the
\* hello's session; the broadcast of a committed sync:update reaches every open socket with
\* fromClientId the clientId of the sender.
C29_HelloAndUpdateReachEveryone ==
  /\ lastOp.op = "sync:hello" /\ lastOp.accepted =>
       /\ MapHas(clientsById, lastOp.clientId) /\ lastOp.ws \in MapGet(clientsById, lastOp.clientId)
       /\ Cardinality(sent) = 1
       /\ \A m \in sent :
            /\ m.kind = "broadcast"
            /\ m.to = C29_Open /\ lastOp.ws \in m.to
            /\ lastOp.clientId \in ListedClients(m)
            /\ m.sessionId = lastOp.sessionId
            /\ m.state.base = getSyncPlaybackState(lastOp.sessionId)
  /\ lastOp.op = "sync:update" /\ lastOp.accepted /\ ~lastOp.targeted =>
       /\ Cardinality(sent) = 1
       /\ \A m \in sent :
            /\ m.kind = "broadcast"
            /\ m.to = C29_Open
            /\ m.state.base.fromClientId = lastOp.clientId
            /\ lastOp.clientId = sockets[lastOp.ws].clientId

\* a hello was broadcast while a socket without a clientId, attached to another session, is open
C29_Witness ==
  /\ lastOp.op = "sync:hello" /\ lastOp.accepted
  /\ \E w \in C29_Open : sockets[w].sessionId \notin {Undef, lastOp.sessionId}


(***************************************************************************)
(* GET /media/:id/stream: which requests reach the heartbeat inferrer.     *)
(***************************************************************************)
\* String(x ?? '').trim().toLowerCase() on the query values of the model
LowerTrim(x) ==
  CASE x \in {Undef, Null} -> ""
    [] x \in {"deovr", " DeoVR "} -> "deovr"
    [] x \in {"desktop", " Desktop "} -> "desktop"
    [] OTHER -> x

\* ua.toLowerCase().includes('deovr') on the user agents of the model
UaIncludesDeovr(ua) == ua \in {"DeoVR/13 (Quest)", "Mozilla/5.0 deovr"}

isDesktopInitiated(req) == LowerTrim(req.mvFrom) = "desktop"

isDeoVr(req) == LowerTrim(req.mvFrom) = "deovr" \/ UaIncludesDeovr(req.ua)

\* variant: the origin of the URL is not looked at
infersFromAnyDeoVr(req) == isDeoVr(req)

\* opts.onVrStream && isDeoVr && !isDesktopInitiated; index.ts always passes onVrStream
infersFrom(req) == isDeoVr(req) /\ ~isDesktopInitiated(req)

\* GET /media/:id/stream?mvFrom=..., with its User-Agent
HttpStreamRequest(req, id) ==
  IF infersFrom(req)
  THEN DeovrStreamRequest(req, "default", id)
  ELSE /\ ops' = ops + 1
       /\ UNCHANGED <<now, deovrStates, deovrPlaybackByKey, lastVrStreamMediaByClient,
                      streamResponses, timers>>
       /\ lastOp' = [Op("GET /media/:id/stream (not inferred)") EXCEPT
                       !.arg = [mediaId |-> id, req |-> req]]
       /\ DeovrPublish({}, vrHist)

StreamUserAgents == {"DeoVR/13 (Quest)", "Mozilla/5.0"}
StreamOrigins == {Undef, " DeoVR ", "desktop", " Desktop ", "vlc"}
StreamRequests == {[ua |-> ua, mvFrom |-> mvFrom] : ua \in StreamUserAgents, mvFrom \in StreamOrigins}

MaxDispatchEvents == 3

DispatchNext ==
  \/ ops < MaxDispatchEvents /\ \E req \in StreamRequests, id \in StreamMediaIds :
                                   HttpStreamRequest(req, id)
  \/ DeovrResponses(MaxDispatchEvents)
  \/ DeovrTimers
  \/ NextDue <= MaxClockMs /\ Advance

DispatchSpec == Init /\ [][DispatchNext]_vars

\* the request comes from DeoVR (its User-Agent, or mvFrom=deovr) and not from the desktop
C30_FromDeoVr(req) ==
  /\ req.ua = "DeoVR/13 (Quest)" \/ req.mvFrom = " DeoVR "
  /\ req.mvFrom \notin {"desktop", " Desktop "}

\* C30: a stream request reaches the heartbeat inferrer only when it is a DeoVR request and
\* mvFrom is not desktop; every other stream request creates or changes no DeoVR state, arms
\* no timer and publishes nothing.
C30_OnlyDeoVrRequestsInferred ==
  [][lastOp'.op \in {"GET /media/:id/stream (DeoVR)", "GET /media/:id/stream (not inferred)"} =>
       /\ lastOp'.op = "GET /media/:id/stream (DeoVR)" <=> C30_FromDeoVr(lastOp'.arg.req)
       /\ ~C30_FromDeoVr(lastOp'.arg.req) =>
            /\ UNCHANGED <<deovrStates, deovrPlaybackByKey, lastVrStreamMediaByClient,
                           streamResponses, timers, syncStateBySession, pendingPublish>>
            /\ vrOut' = {}
            /\ sent' = {}]_vars

\* a request with the DeoVR User-Agent and mvFrom=desktop arrived while a DeoVR state exists
C30_Witness ==
  /\ lastOp.op = "GET /media/:id/stream (not inferred)"
  /\ lastOp.arg.req.ua = "DeoVR/13 (Quest)"
  /\ lastOp.arg.req.mvFrom \in {"desktop", " Desktop "}
  /\ deovrPlaybackByKey # EmptyMap


(***************************************************************************)
(* One long DeoVR stream whose bytes arrive in paced chunks: the inferred  *)
(* playback time over several seconds.                                     *)
(***************************************************************************)
MaxSteadyEvents == 16
MaxSteadyClockMs == 9001
\* the milliseconds between two chunks read from the file
SteadyGaps == {600, 800}

SteadyData(r) ==
  /\ ops < MaxSteadyEvents
  /\ r \in 1 .. Len(streamResponses)
  /\ now - deovrStates[streamResponses[r].st].lastDataAtMs \in SteadyGaps
  /\ StreamData(r)

SteadyNext ==
  \/ streamResponses = <<>> /\ DeovrRequests(MaxSteadyEvents, {"m1"})
  \/ \E r \in 1 .. Len(streamResponses) : SteadyData(r)
  \/ ops < MaxSteadyEvents /\ \E r \in 1 .. Len(streamResponses) : ResponseFinish(r)
  \/ DeovrTimers
  \/ \E t \in 1 .. Len(timers) : ForgetSweep(t)
  \/ NextDue <= MaxSteadyClockMs /\ Advance

SteadySpec == Init /\ [][SteadyNext]_vars

\* C31: for one DeoVR stream state the inferred time never goes backwards, every publish
\* carries the state's lastTimeMs, a paused publish carries the lastTimeMs frozen before the
\* pause, a resume (by a request or by bytes) continues from the frozen value, and every
\* publish has frame = floor(timeMs * 30 / 1000).
C31_InferredTimeContinuous ==
  [][/\ \A st \in 1 .. Len(deovrStates) :
          /\ deovrStates'[st].lastTimeMs >= deovrStates[st].lastTimeMs
          /\ deovrStates[st].paused /\ ~deovrStates'[st].paused =>
               /\ deovrStates'[st].lastTimeMs = deovrStates[st].lastTimeMs
               /\ deovrStates'[st].startedAtMs = now' - deovrStates[st].lastTimeMs
     /\ \A p \in vrOut' :
          /\ p.timeMs = deovrStates'[p.st].lastTimeMs
          /\ p.paused /\ p.st <= Len(deovrStates) => p.timeMs = deovrStates[p.st].lastTimeMs
          /\ onVrStream(p).frame = Num((p.timeMs * DEOVR_FPS) \div 1000)]_vars

\* C32: the idle timer publishes paused = true for a state only when a Range request of that
\* state is open and has been open for at least DEOVR_IDLE_PAUSE_MS without a byte being
\* delivered: a request that has just arrived, after a gap or after a pause, is not paused
\* by the idle check before it has itself been idle that long.
C32_IdlePauseOnlyAfterIdleRequest ==
  [][lastOp'.op = "deovr:idle" /\ lastOp'.accepted =>
       \E r \in 1 .. Len(streamResponses) :
         /\ streamResponses[r].st = lastOp'.arg.st
         /\ ResponseOpen(r)
         /\ now - vrHist.openedAt[r] >= DEOVR_IDLE_PAUSE_MS
         /\ now - deovrStates[lastOp'.arg.st].lastDataAtMs >= DEOVR_IDLE_PAUSE_MS]_vars

(***************************************************************************)
(* The cleanup of upsertMediaFromDisk step by step: the SELECT, the        *)
(* workers that share idx and suspend at each fs.stat, and the DELETE      *)
(* after Promise.all.                                                      *)
(***************************************************************************)
concurrency == 32

IntMin(a, b) == IF a <= b THEN a ELSE b

\* the rel paths the SELECT of the cleanup returns, and the orders it may return them in
SelectedRels ==
  {r.rel_path : r \in {m \in mediaItems : m.rel_path # "" /\ m.media_type \in {"video", "image"}}}

RowOrders ==
  {f \in [1 .. Cardinality(SelectedRels) -> SelectedRels] :
     \A i, j \in DOMAIN f : i # j => f[i] # f[j]}

PoolOf(run) == CHOOSE p \in pool : p.run = run.id

\* worker w from the top of its loop to its next await or its return: at[w] is the index
\* whose stat it awaits, -1 once it has returned; settled lists the indices in the order
\* they were counted in checked
RECURSIVE worker(_, _)
worker(p, w) ==
  LET i == p.idx
      p1 == [p EXCEPT !.idx = @ + 1]
  IN IF i >= Len(p.rows) THEN [p1 EXCEPT !.at[w] = -1]
     ELSE IF Trim(p.rows[i + 1]) = ""
          THEN worker([p1 EXCEPT !.checked = @ + 1, !.settled = Append(@, i)], w)
          ELSE [p1 EXCEPT !.at[w] = i]

\* Array.from({ length }, () => worker()): each worker runs up to its first await
RECURSIVE startWorkers(_, _)
startWorkers(p, w) == IF w > Len(p.at) THEN p ELSE startWorkers(worker(p, w), w + 1)

PoolStep ==
  /\ sent' = {}
  /\ UNCHANGED <<now, syncStateBySession, sessionPlayAt, sessionPlayAtLocalMs,
                 sessionCapturedAtLocalMs, clientMetadata, clientUiStatus, clientsById, sockets,
                 mediaFilenameById, pendingPublish, hist, deovrVars, writeFails, thumbVars>>
  /\ UNCHANGED <<ops, disk, probeVr>>

\* the SELECT of the cleanup and the start of the pool
CleanupSelect(run, outcome) ==
  /\ run \in scanRuns
  /\ run.phase = "cleanup"
  /\ PoolStep
  /\ UNCHANGED <<mediaItems, scanProgress>>
  /\ IF outcome = "selectFails"
     THEN /\ scanRuns' = (scanRuns \ {run}) \cup {[run EXCEPT !.phase = "done"]}
          /\ UNCHANGED pool
     ELSE /\ scanRuns' = (scanRuns \ {run}) \cup {[run EXCEPT !.phase = "pool"]}
          /\ \E rows \in RowOrders :
             pool' = pool \cup
               {startWorkers([run |-> run.id, rows |-> rows, idx |-> 0, checked |-> 0,
                              missing |-> <<>>, settled |-> <<>>,
                              at |-> [w \in 1 .. IntMin(concurrency, IntMax(1, Len(rows)))
                                        |-> -1]], 1)}
  /\ lastOp' = [Op("cleanup:select") EXCEPT !.accepted = (outcome # "selectFails"),
                                            !.arg = [run |-> run, outcome |-> outcome]]

\* the fs.stat that worker w awaits settles, and the worker goes on to its next await
StatSettles(run) ==
  /\ run \in scanRuns
  /\ run.phase = "pool"
  /\ PoolStep
  /\ UNCHANGED <<mediaItems, scanRuns>>
  /\ \E p \in {PoolOf(run)} :
     \E w \in 1 .. Len(p.at) :
       /\ p.at[w] >= 0
       /\ \E i \in {p.at[w]} :
          \E rel \in {Trim(p.rows[i + 1])} :
          \E p1 \in {[p EXCEPT !.missing = IF existsOnDisk(rel) THEN @ ELSE Append(@, rel),
                               !.checked = @ + 1,
                               !.settled = Append(@, i)]} :
            /\ pool' = (pool \ {p}) \cup {worker(p1, w)}
            /\ scanProgress' = IF run.origin = "POST /scan" /\ p1.checked % 200 = 0
                               THEN [isScanning |-> TRUE] ELSE scanProgress
            /\ lastOp' = [Op("cleanup:stat") EXCEPT !.accepted = TRUE,
                            !.arg = [run |-> run, worker |-> w, index |-> i, rel |-> rel]]

\* Promise.all has resolved: the rows of missing are deleted
PoolJoin(run, outcome) ==
  /\ run \in scanRuns
  /\ run.phase = "pool"
  /\ PoolStep
  /\ \E p \in {PoolOf(run)} :
     \E missing \in {{p.missing[k] : k \in 1 .. Len(p.missing)}} :
       /\ \A w \in 1 .. Len(p.at) : p.at[w] = -1
       /\ outcome = "deleteFails" => missing # {}
       /\ pool' = pool \ {p}
       /\ scanRuns' = (scanRuns \ {run}) \cup {[run EXCEPT !.phase = "done"]}
       /\ mediaItems' = IF outcome = "ok"
                        THEN {r \in mediaItems : r.rel_path \notin missing}
                        ELSE mediaItems
       /\ scanProgress' = IF run.origin = "POST /scan" /\ missing # {}
                          THEN [isScanning |-> TRUE] ELSE scanProgress
       /\ lastOp' = [Op("cleanup:delete") EXCEPT !.accepted = (outcome = "ok"),
                       !.arg = [run |-> run, outcome |-> outcome, pool |-> p]]

\* the initial scan of a server whose files disappear and come back while its cleanup
\* stats them
PoolNext ==
  \/ \E run \in scanRuns : ScanWalk(run)
  \/ \E run \in scanRuns, outcome \in {"ok", "selectFails"} : CleanupSelect(run, outcome)
  \/ \E run \in scanRuns : StatSettles(run)
  \/ \E run \in scanRuns, outcome \in {"ok", "deleteFails"} : PoolJoin(run, outcome)
  \/ \E run \in scanRuns : ScanFinish(run)
  \/ \E p \in Paths, outcome \in {"ok", "ENOENT"} : DiskChange(p, outcome)

PoolSpec == Init /\ [][PoolNext]_vars

\* the indices 0 .. total - 1 of a pool occur in xs at most once
NoRepeat(xs) == \A i, j \in 1 .. Len(xs) : i # j => xs[i] # xs[j]

\* C33: the workers of a cleanup check every selected row exactly once (no index is counted
\* twice, none is left out when the pool is joined, no rel path is pushed twice to missing),
\* never await more than 32 stats at a time, and have all returned once every row is checked.
C33_PoolChecksEachRowOnce ==
  [][/\ \A p \in pool' :
          /\ NoRepeat(p.settled)
          /\ NoRepeat(p.missing)
          /\ p.checked = Len(p.settled)
          /\ Cardinality({w \in 1 .. Len(p.at) : p.at[w] >= 0}) <= concurrency
          /\ Len(p.settled) = Len(p.rows) => \A w \in 1 .. Len(p.at) : p.at[w] = -1
     /\ lastOp'.op = "cleanup:delete" =>
          {lastOp'.arg.pool.settled[k] : k \in 1 .. Len(lastOp'.arg.pool.settled)}
            = 0 .. Len(lastOp'.arg.pool.rows) - 1]_vars

(***************************************************************************)
(* The local clocks of a scheduled start: capturedAtLocalMs, playAt and    *)
(* playAtLocalMs of the updates, and the messages that carry them.         *)
(***************************************************************************)
LocalHellos == {Hello("A", Undef)}
LocalStatuses == {Status("player", Null)}

\* what an update says about its start: nothing, a start with its local time, a start
\* without one, and a start whose playAt is no date
LocalStarts ==
  {[playAt |-> Undef, playAtLocalMs |-> NotNumber],
   [playAt |-> "2030-01-01T00:00:01Z", playAtLocalMs |-> Num(1001)],
   [playAt |-> "2030-01-01T00:00:01Z", playAtLocalMs |-> NotNumber],
   [playAt |-> "soon", playAtLocalMs |-> Num(3001)]}

LocalUpdates ==
  { [BaseUpdate EXCEPT !.clientId = "B", !.paused = p, !.playAt = start.playAt,
                       !.playAtLocalMs = start.playAtLocalMs, !.capturedAtLocalMs = captured,
                       !.toClientId = t]
    : p \in BOOLEAN, start \in LocalStarts, captured \in {NotNumber, Half(10001)},
      t \in {Undef, "A"} }
LocalPuts == {Put(Undef, "A", "m1", p) : p \in BOOLEAN}
LocalPublishes == {VrEvent("default", p) : p \in BOOLEAN}

LocalNext == NextOver(LocalHellos, LocalStatuses, LocalUpdates, LocalPuts, LocalPublishes)
LocalSpec == Init /\ [][LocalNext]_vars

\* the step is an accepted sync:update of the session of message m
C34_UpdateOf(m) ==
  /\ lastOp.op = "sync:update"
  /\ lastOp.accepted
  /\ lastOp.sessionId = m.sessionId

\* C34: a sync:state message that carries capturedAtLocalMs is sent by the sync:update that
\* supplied this value, for the state of that update: no message of a later update, of a
\* VR publish or of a hello carries a value captured earlier or by another client.
C34_CapturedBelongsToItsUpdate ==
  \A m \in sent :
    m.state.capturedAtLocalMs # NoNum =>
      /\ C34_UpdateOf(m)
      /\ IsFiniteNumber(lastOp.arg.capturedAtLocalMs)
      /\ m.state.capturedAtLocalMs = MathRound(lastOp.arg.capturedAtLocalMs)
      /\ m.state.base.fromClientId = lastOp.clientId

\* the playAt that the updates of LocalUpdates send along with a playAtLocalMs
C35_PlayAtOf(playAtLocalMs) ==
  LET starts == {start \in LocalStarts : /\ IsFiniteNumber(start.playAtLocalMs)
                                         /\ MathRound(start.playAtLocalMs) = playAtLocalMs}
  IN {IF DateParse(Trim(start.playAt)) # -1 THEN ToISOString(DateParse(Trim(start.playAt)))
      ELSE Absent : start \in starts}

\* C35: a sync:state message that carries playAtLocalMs carries the playAt that the same
\* update stored: its state is not paused, it has a playAt, and the playAt is the one the
\* update of this playAtLocalMs supplied.
C35_PlayAtLocalMsWithItsPlayAt ==
  \A m \in sent :
    m.state.playAtLocalMs # NoNum =>
      /\ ~m.state.base.paused
      /\ m.state.playAt # Absent
      /\ m.state.playAt \in C35_PlayAtOf(m.state.playAtLocalMs)

\* what a session-wide broadcast of session s would carry
C36_Scheduling(s) ==
  [f \in {"playAt", "playAtLocalMs", "capturedAtLocalMs"} |-> broadcastSyncState(s).state[f]]

\* C36: a targeted sync:update adds no scheduling data to the session: a session-wide
\* broadcast sent after it carries no playAt, playAtLocalMs or capturedAtLocalMs other than
\* what a broadcast sent before it would have carried.
C36_TargetedAddsNoScheduling ==
  [][(lastOp'.op = "sync:update" /\ lastOp'.targeted) =>
       \A s \in SessionIds :
         /\ C36_Scheduling(s)'.playAt \in {Absent, C36_Scheduling(s).playAt}
         /\ C36_Scheduling(s)'.playAtLocalMs \in {NoNum, C36_Scheduling(s).playAtLocalMs}
         /\ C36_Scheduling(s)'.capturedAtLocalMs \in {NoNum, C36_Scheduling(s).capturedAtLocalMs}]_vars

\* clientId has a socket that registered it and whose close has not been handled
C37_HasRegisteredSocket(clientId) ==
  \E w \in RegisteredSockets(clientId) :
    MapHas(clientsById, clientId) /\ w \in MapGet(clientsById, clientId)

\* C37: every clientId in the clients list of a broadcast, and every id of the presence
\* map, has at least one socket that registered it and whose close has not been handled
\* yet, after any sequence of hello, rekey and close.
C37_ListedClientsHaveSockets ==
  /\ \A clientId \in MapKeys(clientMetadata) : C37_HasRegisteredSocket(clientId)
  /\ \A m \in sent :
       m.kind = "broadcast" => \A clientId \in ListedClients(m) : C37_HasRegisteredSocket(clientId)

\* a close has been handled and its broadcast, which omits the client that left, lists a
\* client that receives it
C37_Witness ==
  /\ lastOp.op = "close" /\ lastOp.accepted
  /\ \E m \in sent : /\ m.kind = "broadcast"
                     /\ m.to # {}
                     /\ lastOp.clientId \notin ListedClients(m)
                     /\ \E w \in m.to : sockets[w].clientId \in ListedClients(m)

(***************************************************************************)
(* Sessions: which session a message is addressed to, and what a write to  *)
(* one session leaves of the others.                                       *)
(***************************************************************************)
SessionHellos == {Hello("A", Undef), Hello("A", " s1 ")}
SessionStatuses == {Status("player", Null)}
SessionUpdates ==
  { [BaseUpdate EXCEPT !.sessionId = s, !.toClientId = t, !.playAt = "2030-01-01T00:00:01Z",
                       !.playAtLocalMs = Num(1001), !.capturedAtLocalMs = Num(5001)]
    : s \in {Undef, " ", " s1 "}, t \in {Undef, "A"} }
SessionPuts == {Put(s, "P", "m1", FALSE) : s \in {Undef, " ", " s1 "}}
SessionPublishes == {VrEvent(s, FALSE) : s \in SessionIds}

SessionNext ==
  NextOver(SessionHellos, SessionStatuses, SessionUpdates, SessionPuts, SessionPublishes)
SessionSpec == Init /\ [][SessionNext]_vars

\* the entries of a map of the server that belong to other sessions than sessionId
C38_Others(map, sessionId) == {e \in map : e.k # sessionId}

\* the step is an accepted sync:update, PUT /sync or VR publish, and it leaves the stored
\* state and the ephemerals of every session but its own as they were
C38_OthersUnchanged ==
  (lastOp'.op \in {"sync:update", "PUT /sync", "publishExternalSyncUpdate"} /\ lastOp'.accepted) =>
    \E sessionId \in {lastOp'.sessionId} :
      /\ C38_Others(syncStateBySession', sessionId) = C38_Others(syncStateBySession, sessionId)
      /\ C38_Others(sessionPlayAt', sessionId) = C38_Others(sessionPlayAt, sessionId)
      /\ C38_Others(sessionPlayAtLocalMs', sessionId) = C38_Others(sessionPlayAtLocalMs, sessionId)
      /\ C38_Others(sessionCapturedAtLocalMs', sessionId)
           = C38_Others(sessionCapturedAtLocalMs, sessionId)

\* the sessionId of the message is missing or blank
C38_Missing(raw) == raw \in {Undef, Null}
C38_Blank(raw) == ~C38_Missing(raw) /\ Trim(raw) = ""

\* C38: a sync:update, VR publish or PUT /sync addressed to one session leaves the stored
\* state and the playAt, playAtLocalMs and capturedAtLocalMs of every other session
\* unchanged, and a missing or blank sessionId always resolves to the session "default".
C38_SessionsIsolated ==
  [][/\ C38_OthersUnchanged
     /\ (lastOp'.op \in {"sync:update", "PUT /sync"} /\ lastOp'.accepted) =>
          ((C38_Missing(lastOp'.arg.sessionId) \/ C38_Blank(lastOp'.arg.sessionId))
             => lastOp'.sessionId = "default")]_vars

\* C38 (amended): the writes leave the other sessions unchanged; a blank sessionId
\* resolves to "default"; a missing sessionId resolves to "default" in PUT /sync, and in a
\* sync:update to the session of the socket's last sync:hello, "default" if it sent none.
C38_SessionsIsolatedHelloSession ==
  [][/\ C38_OthersUnchanged
     /\ (lastOp'.op \in {"sync:update", "PUT /sync"} /\ lastOp'.accepted) =>
          /\ C38_Blank(lastOp'.arg.sessionId) => lastOp'.sessionId = "default"
          /\ C38_Missing(lastOp'.arg.sessionId) =>
               lastOp'.sessionId =
                 IF lastOp'.op = "sync:update" /\ sockets[lastOp'.ws].sessionId # Undef
                 THEN sockets[lastOp'.ws].sessionId
                 ELSE "default"]_vars

\* an update without sessionId was committed to the session s1 of its socket's hello while
\* the session "default" holds a state and a captured time of its own
C38_Witness ==
  /\ lastOp.op = "sync:update" /\ lastOp.accepted /\ ~lastOp.targeted
  /\ lastOp.arg.sessionId = Undef
  /\ lastOp.sessionId = "s1"
  /\ MapHas(syncStateBySession, "default")
  /\ MapHas(sessionCapturedAtLocalMs, "default")

(***************************************************************************)
(* GET /media/:id/stream and the catalog: what the handler answers once    *)
(* the heartbeat part has run.                                             *)
(***************************************************************************)
\* the status the handler answers after its SELECT by id and its fs.stat of the file
streamLookup(id) ==
  IF \E r \in mediaItems : r.id = id
  THEN IF StatOf((CHOOSE r \in mediaItems : r.id = id).rel_path) = "ok" THEN 200 ELSE 404
  ELSE 404

MaxCatalogEvents == 3

\* an id of the initial scan, and an id that no scan has given to a row
CatalogStreamIds == {newId([id |-> 0], "a.mp4"), "m9"}

\* a player that asks for streams while the initial scan fills the catalog and a file is
\* deleted; only a response that streams the file gets data
CatalogNext ==
  \/ \E run \in scanRuns : ScanWalk(run)
  \/ ops < MaxCatalogEvents /\ DiskChange("a.mp4", "ENOENT")
  \/ DeovrRequests(MaxCatalogEvents, CatalogStreamIds)
  \/ ops < MaxCatalogEvents /\ \E r \in 1 .. Len(streamResponses) : ResponseFinish(r)
  \/ ops < MaxCatalogEvents /\ \E r \in 1 .. Len(streamResponses) : ResponseClose(r)
  \/ /\ ops < MaxCatalogEvents
     /\ \E r \in 1 .. Len(streamResponses) :
          /\ streamLookup(deovrStates[streamResponses[r].st].mediaId) = 200
          /\ StreamData(r)
  \/ DeovrTimers
  \/ NextDue <= MaxClockMs /\ Advance

CatalogSpec == Init /\ [][CatalogNext]_vars

\* C39: a DeoVR stream request that is answered 404, because no row has the id or the file
\* is gone, creates or changes no DeoVR state and commits nothing; the publishes of the
\* heartbeat, and the session state they leave, name only media ids of the catalog.
C39_NotFoundLeavesNoTrace ==
  [][/\ (lastOp'.op = "GET /media/:id/stream (DeoVR)" /\ streamLookup(lastOp'.arg.mediaId) = 404) =>
          /\ UNCHANGED <<deovrStates, deovrPlaybackByKey, lastVrStreamMediaByClient,
                         syncStateBySession>>
          /\ vrOut' = {}
     /\ \A p \in vrOut' :
          /\ p.mediaId \in {r.id : r \in mediaItems'}
          /\ getSyncPlaybackState(p.sessionId)'.mediaId \in {r.id : r \in mediaItems'}]_vars

\* the scans that an accepted POST /scan started and that have neither returned nor thrown
C40_PostScans == {run \in scanRuns : run.origin = "POST /scan"}

\* C40: from an accepted POST /scan until its scan returns or throws, GET /scan/progress
\* reports isScanning = true; from then on it reports false until the next accepted
\* POST /scan, so that a POST /scan is answered 409 only while such a scan is running.
C40_ScanProgressFollowsScan ==
  /\ scanProgress.isScanning <=> C40_PostScans # {}
  /\ lastOp.op = "POST /scan" =>
       /\ lastOp.accepted => scanProgress.isScanning
       /\ lastOp.result.status = 409 => C40_PostScans # {}
       /\ lastOp.result.status \in {200, 409}

\* the scan of a POST /scan has returned, and GET /scan/progress reports isScanning = false
C40_Witness ==
  /\ lastOp.op = "scan:finish"
  /\ lastOp.arg.origin = "POST /scan"
  /\ ~scanProgress.isScanning
  /\ C40_PostScans = {}

============================================================================
